---- MODULE Spec2Model ----
(***************************************************************************)
(* Amenity booking management of the Condo Amenity & Service Hub.          *)
(* Two variants of the program are modelled side by side: "sqlite" is      *)
(* src/CCT211.py and "json" is src/CCT211_Project2.py.                     *)
(*                                                                         *)
(* Python strings that the program parses (dates, times) are sequences of  *)
(* one-character strings, so that splitting, digit tests and int() are     *)
(* computed and not assumed.  Strings that the program only compares       *)
(* (unit, facility, status, user names) are TLA+ strings.                  *)
(***************************************************************************)
EXTENDS Integers, Sequences, FiniteSets, Bags, TLC

(***************************************************************************)
(* Bounds of the model.                                                    *)
(***************************************************************************)
MaxBookings == 2
MaxForms == 2
MaxId == 2
MaxRequests == 2
MaxRequestForms == 2

(***************************************************************************)
(* Characters and Python string primitives.                                *)
(***************************************************************************)
\* A character is a one-element string, except "U+0660", which stands for the
\* single character ARABIC-INDIC DIGIT ZERO: \d of a str pattern, int() and
\* strptime take every Unicode decimal digit, not only 0-9.
AsciiDigits == {"0", "1", "2", "3", "4", "5", "6", "7", "8", "9"}

Digits == AsciiDigits \cup {"U+0660"}

DigitVal(c) ==
  CASE c = "0" -> 0 [] c = "1" -> 1 [] c = "2" -> 2 [] c = "3" -> 3
    [] c = "4" -> 4 [] c = "5" -> 5 [] c = "6" -> 6 [] c = "7" -> 7
    [] c = "8" -> 8 [] c = "9" -> 9 [] c = "U+0660" -> 0

\* Code point order of the characters that occur in stored dates and times,
\* as SQLite's BINARY collation and Python's str comparison see them.
CharOrd(c) ==
  CASE c = " " -> 32 [] c = "+" -> 43 [] c = "-" -> 45 [] c = ":" -> 58
    [] c = "a" -> 97 [] c = "b" -> 98 [] c = "U+0660" -> 1632
    [] OTHER -> 48 + DigitVal(c)

RECURSIVE StrLess(_, _)
StrLess(s, t) ==
  IF t = <<>> THEN FALSE
  ELSE IF s = <<>> THEN TRUE
  ELSE IF Head(s) # Head(t) THEN CharOrd(Head(s)) < CharOrd(Head(t))
  ELSE StrLess(Tail(s), Tail(t))

\* str.strip(): leading and trailing blanks removed.
RECURSIVE LStrip(_)
LStrip(s) == IF s # <<>> /\ Head(s) = " " THEN LStrip(Tail(s)) ELSE s

RECURSIVE RStrip(_)
RStrip(s) ==
  IF s # <<>> /\ s[Len(s)] = " " THEN RStrip(SubSeq(s, 1, Len(s) - 1)) ELSE s

Strip(s) == RStrip(LStrip(s))

\* str.split(sep): the pieces between the occurrences of sep.
RECURSIVE SplitAcc(_, _, _)
SplitAcc(s, sep, cur) ==
  IF s = <<>> THEN <<cur>>
  ELSE IF Head(s) = sep THEN <<cur>> \o SplitAcc(Tail(s), sep, <<>>)
  ELSE SplitAcc(Tail(s), sep, Append(cur, Head(s)))

Split(s, sep) == SplitAcc(s, sep, <<>>)

AllDigits(s) == \A i \in 1..Len(s) : s[i] \in Digits

RECURSIVE DigitsVal(_)
DigitsVal(s) ==
  IF s = <<>> THEN 0 ELSE DigitsVal(SubSeq(s, 1, Len(s) - 1)) * 10 + DigitVal(s[Len(s)])

\* int(s): blanks stripped, an optional sign, then one or more digits;
\* anything else raises ValueError.
IntOk(s) ==
  LET t == Strip(s)
      u == IF t # <<>> /\ Head(t) \in {"+", "-"} THEN Tail(t) ELSE t
  IN  u # <<>> /\ AllDigits(u)

IntVal(s) ==
  LET t == Strip(s)
  IN  IF Head(t) = "-" THEN 0 - DigitsVal(Tail(t))
      ELSE IF Head(t) = "+" THEN DigitsVal(Tail(t))
      ELSE DigitsVal(t)

\* parse_time_to_minutes: h, m = time_str.split(":"); int(h) * 60 + int(m);
\* -1 on ValueError (wrong number of pieces, or a piece int() refuses).
parse_time_to_minutes(time_str) ==
  LET parts == Split(time_str, ":")
  IN  IF Len(parts) # 2 THEN -1
      ELSE IF ~IntOk(parts[1]) \/ ~IntOk(parts[2]) THEN -1
      ELSE IntVal(parts[1]) * 60 + IntVal(parts[2])

(***************************************************************************)
(* Calendar dates (datetime.date).                                         *)
(***************************************************************************)
IsLeap(y) == (y % 4 = 0 /\ y % 100 # 0) \/ y % 400 = 0

DaysInMonth(y, m) ==
  IF m = 2 THEN (IF IsLeap(y) THEN 29 ELSE 28)
  ELSE IF m \in {4, 6, 9, 11} THEN 30 ELSE 31

\* date(year, month, day) is constructible.
DateConstructible(y, m, d) ==
  /\ y >= 1 /\ y <= 9999
  /\ m >= 1 /\ m <= 12
  /\ d >= 1 /\ d <= DaysInMonth(y, m)

\* date.__lt__ on <<year, month, day>>.
DateBefore(a, b) ==
  \/ a[1] < b[1]
  \/ a[1] = b[1] /\ a[2] < b[2]
  \/ a[1] = b[1] /\ a[2] = b[2] /\ a[3] < b[3]

_MIN_BOOKING_DATE == <<2025, 9, 2>>

DigitChar(n) ==
  CASE n = 0 -> "0" [] n = 1 -> "1" [] n = 2 -> "2" [] n = 3 -> "3"
    [] n = 4 -> "4" [] n = 5 -> "5" [] n = 6 -> "6" [] n = 7 -> "7"
    [] n = 8 -> "8" [] n = 9 -> "9"

\* n written in decimal with at least w digits, zero padded.
RECURSIVE ZeroPad(_, _)
ZeroPad(n, w) ==
  IF w <= 1 /\ n < 10 THEN <<DigitChar(n)>>
  ELSE Append(ZeroPad(n \div 10, w - 1), DigitChar(n % 10))

\* date.isoformat()
isoformat(ymd) ==
  ZeroPad(ymd[1], 4) \o <<"-">> \o ZeroPad(ymd[2], 2) \o <<"-">> \o ZeroPad(ymd[3], 2)

\* A validation outcome: the value on success, the kind of ValueError otherwise.
Valid(v) == [ok |-> TRUE, err |-> "", value |-> v]
Invalid(kind) == [ok |-> FALSE, err |-> kind, value |-> <<>>]

\* re.fullmatch(r"\d{4}-\d{2}-\d{2}", date_str)
DateShape(s) ==
  /\ Len(s) = 10
  /\ \A i \in {1, 2, 3, 4, 6, 7, 9, 10} : s[i] \in Digits
  /\ s[5] = "-" /\ s[8] = "-"

\* AmenityBooking._validate_and_normalize_date (SQLite variant).
_validate_and_normalize_date(date_str) ==
  IF ~DateShape(date_str) THEN Invalid("FormatError")
  ELSE LET parts == Split(date_str, "-")
           year == IntVal(parts[1])
           month == IntVal(parts[2])
           day == IntVal(parts[3])
       IN  IF ~DateConstructible(year, month, day) THEN Invalid("InvalidDateError")
           ELSE IF DateBefore(<<year, month, day>>, _MIN_BOOKING_DATE)
                THEN Invalid("TooEarlyError")
           ELSE Valid(isoformat(<<year, month, day>>))

\* re.fullmatch(r"\d{2}:\d{2}", time_str)
TimeShape(s) ==
  /\ Len(s) = 5
  /\ \A i \in {1, 2, 4, 5} : s[i] \in Digits
  /\ s[3] = ":"

\* A slip in _validate_time: 24 taken for an hour.
_validate_time_Hour24(time_str) ==
  IF ~TimeShape(time_str) THEN Invalid("FormatError")
  ELSE LET parts == Split(time_str, ":")
           hour == IntVal(parts[1])
           minute == IntVal(parts[2])
       IN  IF ~(0 <= hour /\ hour <= 24) THEN Invalid("RangeError")
           ELSE IF ~(0 <= minute /\ minute <= 59) THEN Invalid("RangeError")
           ELSE Valid(time_str)

\* AmenityBooking._validate_time (SQLite variant).
_validate_time(time_str) ==
  IF ~TimeShape(time_str) THEN Invalid("FormatError")
  ELSE LET parts == Split(time_str, ":")
           hour == IntVal(parts[1])
           minute == IntVal(parts[2])
       IN  IF ~(0 <= hour /\ hour <= 23) THEN Invalid("RangeError")
           ELSE IF ~(0 <= minute /\ minute <= 59) THEN Invalid("RangeError")
           ELSE Valid(time_str)

\* datetime.strptime(date_str, "%Y-%m-%d") succeeds (JSON variant): %Y is four
\* digits, %m is 1..12 and %d is 1..31 in one or two digits, and the date exists.
StrptimeOk(date_str) ==
  LET parts == Split(date_str, "-")
  IN  /\ Len(parts) = 3
      /\ Len(parts[1]) = 4 /\ AllDigits(parts[1])
      /\ Len(parts[2]) \in {1, 2} /\ AllDigits(parts[2])
      /\ Len(parts[3]) \in {1, 2} /\ AllDigits(parts[3])
      /\ DigitsVal(parts[2]) \in 1..12
      /\ DigitsVal(parts[3]) \in 1..31
      /\ DateConstructible(DigitsVal(parts[1]), DigitsVal(parts[2]), DigitsVal(parts[3]))

\* A slip in the ordering test: > for >=, so equal times pass.
dtimeBefore_OrEqual(start_time, end_time) ==
  LET s == Split(start_time, ":")
      e == Split(end_time, ":")
  IN  \/ IntVal(s[1]) < IntVal(e[1])
      \/ IntVal(s[1]) = IntVal(e[1]) /\ IntVal(s[2]) <= IntVal(e[2])

\* dtime(st_h, st_m) < dtime(et_h, et_m) for two validated "HH:MM" strings.
dtimeBefore(start_time, end_time) ==
  LET s == Split(start_time, ":")
      e == Split(end_time, ":")
  IN  \/ IntVal(s[1]) < IntVal(e[1])
      \/ IntVal(s[1]) = IntVal(e[1]) /\ IntVal(s[2]) < IntVal(e[2])

(***************************************************************************)
(* AmenityBooking.                                                         *)
(***************************************************************************)
Booking(id, unit, facility_type, date, start_time, end_time, status, created_by) ==
  [id |-> id, unit |-> unit, facility_type |-> facility_type, date |-> date,
   start_time |-> start_time, end_time |-> end_time, status |-> status,
   created_by |-> created_by]

NoBooking == Booking(0, "", "", <<>>, <<>>, <<>>, "", "")

\* AmenityBooking.__init__: the SQLite variant validates the date, then both
\* times, then their order; the JSON variant stores what it is given.
AmenityBooking(v, id, unit, facility_type, date_str, start_time, end_time, status, created_by) ==
  IF v = "json"
  THEN Valid(Booking(id, unit, facility_type, date_str, start_time, end_time,
                     status, created_by))
  ELSE LET d == _validate_and_normalize_date(date_str)
           st == _validate_time(start_time)
           et == _validate_time(end_time)
       IN  IF ~d.ok THEN Invalid(d.err)
           ELSE IF ~st.ok THEN Invalid(st.err)
           ELSE IF ~et.ok THEN Invalid(et.err)
           ELSE IF ~dtimeBefore(st.value, et.value) THEN Invalid("OrderingError")
           ELSE Valid(Booking(id, unit, facility_type, d.value, st.value, et.value,
                              status, created_by))

(***************************************************************************)
(* DataStore.  The stored collection is a sequence of bookings: the JSON    *)
(* variant keeps the list it was given, the SQLite variant a table whose   *)
(* primary key is id, held here in insertion order and read back sorted.   *)
(***************************************************************************)
Ids(bs) == {bs[i].id : i \in 1..Len(bs)}

RECURSIVE MaxOf(_)
MaxOf(S) ==
  IF S = {} THEN 0
  ELSE LET x == CHOOSE y \in S : TRUE
           m == MaxOf(S \ {x})
       IN  IF x > m THEN x ELSE m

\* DataStore.next_id("amenity_bookings"): MAX(id) + 1, or 1 when there is none.
\* A slip in next_id: the number of rows plus one.
next_id_Count(rows) == Len(rows) + 1

next_id(rows) == IF rows = <<>> THEN 1 ELSE MaxOf(Ids(rows)) + 1

\* ORDER BY date, start_time, id
OrderBefore(a, b) ==
  \/ StrLess(a.date, b.date)
  \/ a.date = b.date /\ StrLess(a.start_time, b.start_time)
  \/ a.date = b.date /\ a.start_time = b.start_time /\ a.id < b.id

RECURSIVE InsertOrdered(_, _)
InsertOrdered(sorted, b) ==
  IF sorted = <<>> THEN <<b>>
  ELSE IF OrderBefore(b, Head(sorted)) THEN <<b>> \o sorted
  ELSE <<Head(sorted)>> \o InsertOrdered(Tail(sorted), b)

RECURSIVE OrderRows(_)
OrderRows(rows) ==
  IF rows = <<>> THEN <<>>
  ELSE InsertOrdered(OrderRows(SubSeq(rows, 1, Len(rows) - 1)), rows[Len(rows)])

\* AmenityBooking.from_dict(row) for every row read; a row the constructor
\* refuses makes the whole read raise.
from_dict(v, d) ==
  AmenityBooking(v, d.id, d.unit, d.facility_type, d.date, d.start_time,
                 d.end_time, d.status, d.created_by)

RowsLoadable(v, rows) == \A i \in 1..Len(rows) : from_dict(v, rows[i]).ok

\* DataStore.get_amenity_bookings
get_amenity_bookings(v, rows) ==
  LET read == IF v = "sqlite" THEN OrderRows(rows) ELSE rows
  IN  [i \in 1..Len(read) |-> from_dict(v, read[i]).value]

\* executemany(INSERT ...): rows go in one by one; the first row whose id is
\* already in the table raises IntegrityError and the rows before it stay.
RECURSIVE InsertRows(_, _)
InsertRows(table, bs) ==
  IF bs = <<>> THEN [ok |-> TRUE, rows |-> table]
  ELSE IF Head(bs).id \in Ids(table) THEN [ok |-> FALSE, rows |-> table]
  ELSE InsertRows(Append(table, Head(bs)), Tail(bs))

\* A slip in set_amenity_bookings: cancelled bookings are not written.
set_amenity_bookings_SkipsCancelled(v, bs) ==
  LET kept == SelectSeq(bs, LAMBDA b : b.status # "Cancelled")
  IN  IF v = "sqlite" THEN InsertRows(<<>>, kept) ELSE [ok |-> TRUE, rows |-> kept]

\* DataStore.set_amenity_bookings: replace the whole collection.
set_amenity_bookings(v, bs) ==
  IF v = "sqlite" THEN InsertRows(<<>>, bs) ELSE [ok |-> TRUE, rows |-> bs]

(***************************************************************************)
(* Users.                                                                  *)
(***************************************************************************)
User(username, role, unit) == [username |-> username, role |-> role, unit |-> unit]

is_admin(u) == u.role = "admin"

Users == {User("admin", "admin", ""), User("alice", "resident", "101")}

Variants == {"sqlite", "json"}

(***************************************************************************)
(* AmenityWindow: the pure parts of its handlers.                          *)
(***************************************************************************)
\* AmenityWindow._can_modify
\* A slip in the permission check: the rule of delete (own unit) used for
\* edit and cancel.
_can_modify_SameUnit(u, booking) ==
  IF is_admin(u) THEN TRUE ELSE booking.unit = u.unit

_can_modify(u, booking) ==
  IF is_admin(u) THEN TRUE ELSE booking.created_by = u.username

\* The permission check of AmenityWindow.delete_booking: the SQLite variant
\* lets a resident delete the bookings of the resident's own unit, the JSON
\* variant lets only an admin delete.
\* A slip in the permission check of delete: the rule of edit and cancel
\* (own bookings) used for a resident of the SQLite variant.
may_delete_Creator(v, u, b) ==
  IF is_admin(u) THEN TRUE
  ELSE IF v = "sqlite" THEN b.created_by = u.username
  ELSE FALSE

may_delete(v, u, b) ==
  IF is_admin(u) THEN TRUE
  ELSE IF v = "sqlite" THEN b.unit = u.unit
  ELSE FALSE

\* AmenityWindow.has_conflict: the for loop over self.bookings.
RECURSIVE ConflictLoop(_, _, _, _)
ConflictLoop(bs, new_booking, new_start, new_end) ==
  IF bs = <<>> THEN FALSE
  ELSE LET b == Head(bs)
       IN  IF b.id = new_booking.id
           THEN ConflictLoop(Tail(bs), new_booking, new_start, new_end)
           ELSE IF /\ b.facility_type = new_booking.facility_type
                   /\ b.date = new_booking.date
                   /\ parse_time_to_minutes(b.start_time) < new_end
                   /\ new_start < parse_time_to_minutes(b.end_time)
                THEN TRUE
           ELSE ConflictLoop(Tail(bs), new_booking, new_start, new_end)

\* A slip in the overlap test: the booking with the candidate's id is not
\* passed over.
RECURSIVE WithSelfLoop(_, _, _, _)
WithSelfLoop(bs, new_booking, new_start, new_end) ==
  IF bs = <<>> THEN FALSE
  ELSE LET b == Head(bs)
       IN  IF /\ b.facility_type = new_booking.facility_type
              /\ b.date = new_booking.date
              /\ parse_time_to_minutes(b.start_time) < new_end
              /\ new_start < parse_time_to_minutes(b.end_time)
           THEN TRUE
           ELSE WithSelfLoop(Tail(bs), new_booking, new_start, new_end)

has_conflict_WithSelf(bs, new_booking) ==
  WithSelfLoop(bs, new_booking, parse_time_to_minutes(new_booking.start_time),
               parse_time_to_minutes(new_booking.end_time))

\* A slip in the overlap test: cancelled bookings are passed over.
RECURSIVE ActiveLoop(_, _, _, _)
ActiveLoop(bs, new_booking, new_start, new_end) ==
  IF bs = <<>> THEN FALSE
  ELSE LET b == Head(bs)
       IN  IF b.id = new_booking.id \/ b.status = "Cancelled"
           THEN ActiveLoop(Tail(bs), new_booking, new_start, new_end)
           ELSE IF /\ b.facility_type = new_booking.facility_type
                   /\ b.date = new_booking.date
                   /\ parse_time_to_minutes(b.start_time) < new_end
                   /\ new_start < parse_time_to_minutes(b.end_time)
                THEN TRUE
           ELSE ActiveLoop(Tail(bs), new_booking, new_start, new_end)

has_conflict_SkipsCancelled(bs, new_booking) ==
  ActiveLoop(bs, new_booking, parse_time_to_minutes(new_booking.start_time),
             parse_time_to_minutes(new_booking.end_time))

\* A slip in the overlap test: closed intervals, so touching slots collide.
RECURSIVE ClosedLoop(_, _, _, _)
ClosedLoop(bs, new_booking, new_start, new_end) ==
  IF bs = <<>> THEN FALSE
  ELSE LET b == Head(bs)
       IN  IF b.id = new_booking.id
           THEN ClosedLoop(Tail(bs), new_booking, new_start, new_end)
           ELSE IF /\ b.facility_type = new_booking.facility_type
                   /\ b.date = new_booking.date
                   /\ parse_time_to_minutes(b.start_time) <= new_end
                   /\ new_start <= parse_time_to_minutes(b.end_time)
                THEN TRUE
           ELSE ClosedLoop(Tail(bs), new_booking, new_start, new_end)

has_conflict_Closed(bs, new_booking) ==
  ClosedLoop(bs, new_booking, parse_time_to_minutes(new_booking.start_time),
             parse_time_to_minutes(new_booking.end_time))

\* A slip in the overlap test: only a start inside the existing slot counts.
RECURSIVE StartInsideLoop(_, _, _)
StartInsideLoop(bs, new_booking, new_start) ==
  IF bs = <<>> THEN FALSE
  ELSE LET b == Head(bs)
       IN  IF b.id = new_booking.id THEN StartInsideLoop(Tail(bs), new_booking, new_start)
           ELSE IF /\ b.facility_type = new_booking.facility_type
                   /\ b.date = new_booking.date
                   /\ parse_time_to_minutes(b.start_time) < new_start
                   /\ new_start < parse_time_to_minutes(b.end_time)
                THEN TRUE
           ELSE StartInsideLoop(Tail(bs), new_booking, new_start)

has_conflict_StartInside(bs, new_booking) ==
  StartInsideLoop(bs, new_booking, parse_time_to_minutes(new_booking.start_time))

has_conflict(bs, new_booking) ==
  LET new_start == parse_time_to_minutes(new_booking.start_time)
      new_end == parse_time_to_minutes(new_booking.end_time)
  IN  IF new_start < 0 \/ new_end < 0 THEN FALSE
      ELSE ConflictLoop(bs, new_booking, new_start, new_end)

\* The else branch of on_booking_saved: the first booking with the id is
\* replaced, and the list is left alone when no booking has it.
\* A slip in the edit branch: the old booking is dropped and the new one
\* appended.
ReplaceFirst_MoveToEnd(bs, booking) ==
  IF \A i \in 1..Len(bs) : bs[i].id # booking.id THEN bs
  ELSE Append(SelectSeq(bs, LAMBDA b : b.id # booking.id), booking)

ReplaceFirst(bs, booking) ==
  LET hits == {i \in 1..Len(bs) : bs[i].id = booking.id}
  IN  IF hits = {} THEN bs
      ELSE LET i == CHOOSE j \in hits : \A k \in hits : j <= k
           IN  [bs EXCEPT ![i] = booking]

\* AmenityWindow.on_booking_saved up to the call of save_and_refresh: the
\* value it will return and the list it leaves in self.bookings.
on_booking_saved(bs, booking, is_new) ==
  IF has_conflict(bs, booking) THEN [ret |-> FALSE, list |-> bs]
  ELSE IF is_new THEN [ret |-> TRUE, list |-> Append(bs, booking)]
  ELSE [ret |-> TRUE, list |-> ReplaceFirst(bs, booking)]

\* self.bookings = [bk for bk in self.bookings if bk.id != b.id]
\* A slip in the filter of delete: == for !=.
WithoutId_Keeps(bs, id) == SelectSeq(bs, LAMBDA b : b.id = id)

RECURSIVE WithoutId(_, _)
WithoutId(bs, id) ==
  IF bs = <<>> THEN <<>>
  ELSE IF Head(bs).id # id THEN <<Head(bs)>> \o WithoutId(Tail(bs), id)
  ELSE WithoutId(Tail(bs), id)

(***************************************************************************)
(* BookingForm.  A form keeps the window it belongs to and the booking     *)
(* object it edits, of which save() reads only id and created_by; a form   *)
(* for a new booking keeps none.  The entries are read when Save is        *)
(* pressed, so what they hold is an input of save.                         *)
(***************************************************************************)
Form(win, is_new, id, created_by) ==
  [win |-> win, is_new |-> is_new, id |-> id, created_by |-> created_by]

RawFields(unit, facility, date, start, end, status) ==
  [unit |-> unit, facility |-> facility, date |-> date, start |-> start,
   end |-> end, status |-> status]

Rejected(dialog) == [accepted |-> FALSE, dialog |-> dialog, booking |-> NoBooking]

\* BookingForm.save up to the call of on_save: the dialog that ends it, or the
\* booking it hands to on_save.  unit, facility and status carry no blanks,
\* so strip() is applied to the date and the times only.
BookingForm_save(v, u, rows, form, raw) ==
  LET unit == raw.unit
      facility == raw.facility
      date_str == Strip(raw.date)
      start == Strip(raw.start)
      end == Strip(raw.end)
      status == raw.status
      start_m == parse_time_to_minutes(start)
      end_m == parse_time_to_minutes(end)
      booking_id == IF form.is_new THEN next_id(rows) ELSE form.id
      creator == IF form.is_new THEN u.username ELSE form.created_by
      made == AmenityBooking(v, booking_id, unit, facility, date_str, start, end,
                             status, creator)
  IN  IF unit = "" \/ facility = "" \/ date_str = <<>> \/ start = <<>> \/ end = <<>>
      THEN Rejected("Error")
      ELSE IF v = "json" /\ ~StrptimeOk(date_str) THEN Rejected("Error")
      ELSE IF start_m < 0 \/ end_m < 0 \/ end_m <= start_m
           THEN Rejected(IF v = "sqlite" THEN "Invalid Time" ELSE "Error")
      ELSE IF ~made.ok THEN Rejected("Invalid Booking")
      ELSE [accepted |-> TRUE, dialog |-> "", booking |-> made.value]

\* What an earlier session may have left in the store: nothing, or a booking
\* of unit 101 made by a resident who has since moved to another unit.
SeedBooking ==
  Booking(1, "101", "Meeting Room",
          <<"2", "0", "2", "5", "-", "0", "9", "-", "1", "0">>,
          <<"1", "0", ":", "0", "0">>, <<"1", "1", ":", "0", "0">>, "Booked", "bob")

Seeds == {<<>>, <<SeedBooking>>}

(***************************************************************************)
(* Service requests.  A ServiceRequest is an object: the window's list and *)
(* the forms hold references to it, and StatusForm.save writes its status  *)
(* in place.                                                               *)
(***************************************************************************)
ServiceRequest(req_id, unit, req_type, description, status, created_by) ==
  [id |-> req_id, unit |-> unit, req_type |-> req_type, description |-> description,
   status |-> status, created_by |-> created_by]

NoRequest == ServiceRequest(0, "", "", "", "", "")

\* References to ServiceRequest objects; 0 stands for None.
Refs == 1..(MaxRequests + MaxRequestForms + 1)

NoObjects == [r \in Refs |-> NoRequest]

\* ORDER BY id DESC
RECURSIVE InsertDescending(_, _)
InsertDescending(sorted, r) ==
  IF sorted = <<>> THEN <<r>>
  ELSE IF r.id > Head(sorted).id THEN <<r>> \o sorted
  ELSE <<Head(sorted)>> \o InsertDescending(Tail(sorted), r)

RECURSIVE OrderDescending(_)
OrderDescending(rows) ==
  IF rows = <<>> THEN <<>>
  ELSE InsertDescending(OrderDescending(SubSeq(rows, 1, Len(rows) - 1)), rows[Len(rows)])

\* DataStore.get_service_requests
get_service_requests(v, rows) == IF v = "sqlite" THEN OrderDescending(rows) ELSE rows

\* DataStore.set_service_requests: replace the whole collection.
set_service_requests(v, rs) ==
  IF v = "sqlite" THEN InsertRows(<<>>, rs) ELSE [ok |-> TRUE, rows |-> rs]

\* refresh_listbox: current_view, what the listbox shows.
current_view(u, h, reqs) ==
  IF is_admin(u) THEN reqs ELSE SelectSeq(reqs, LAMBDA r : h[r].created_by = u.username)

\* The permission check of ServiceRequestWindow.delete_request.
may_delete_request(v, u, r) ==
  IF is_admin(u) THEN TRUE
  ELSE IF v = "sqlite" THEN r.created_by = u.username
  ELSE FALSE

\* for i, r in enumerate(self.requests): if r.id == req.id: self.requests[i] = req; break
ReplaceFirstRef(h, reqs, ref) ==
  LET hits == {i \in 1..Len(reqs) : h[reqs[i]].id = h[ref].id}
  IN  IF hits = {} THEN reqs
      ELSE LET i == CHOOSE j \in hits : \A k \in hits : j <= k
           IN  [reqs EXCEPT ![i] = ref]

RequestForm(kind, request) == [kind |-> kind, request |-> request]

\* The objects something still refers to; the others are garbage.
Referenced(reqs, fs) ==
  ({reqs[i] : i \in 1..Len(reqs)} \cup {f.request : f \in BagToSet(fs)}) \ {0}

\* References are opaque: after each handler the objects are renumbered, the
\* list's objects first and in its order, then the ones only forms refer to;
\* garbage goes.
Renumber(reqs, fs, r) ==
  IF r = 0 THEN 0
  ELSE IF \E i \in 1..Len(reqs) : reqs[i] = r
  THEN CHOOSE i \in 1..Len(reqs) : reqs[i] = r
  ELSE Len(reqs)
       + Cardinality({d \in Referenced(reqs, fs) \ {reqs[i] : i \in 1..Len(reqs)} : d <= r})

Collect(h, reqs, fs) ==
  LET live == Referenced(reqs, fs)
      moved(f) == RequestForm(f.kind, Renumber(reqs, fs, f.request))
      after == {moved(f) : f \in BagToSet(fs)}
  IN  [heap |-> [n \in Refs |->
                  IF \E r \in live : Renumber(reqs, fs, r) = n
                  THEN h[CHOOSE r \in live : Renumber(reqs, fs, r) = n]
                  ELSE NoRequest],
       requests |-> [i \in 1..Len(reqs) |-> i],
       forms |-> [g \in after |-> fs[CHOOSE f \in BagToSet(fs) : moved(f) = g]]]

RequestFields(unit, req_type, description) ==
  [unit |-> unit, req_type |-> req_type, description |-> description]

(***************************************************************************)
(* The state of the running application.                                   *)
(***************************************************************************)
VARIABLES
  variant,   \* which program runs: "sqlite" (CCT211.py) or "json" (CCT211_Project2.py)
  user,      \* CondoApp.user, the logged-in user
  store,     \* what DataStore reads return: the table seen by the connection / self.data
  disk,      \* what is durable: the committed table / the JSON file
  open,      \* open[w]: AmenityWindow w exists
  bookings,  \* bookings[w]: AmenityWindow.bookings of window w
  listed,    \* listed[w]: the number of rows the listbox of window w shows
  forms,     \* the bag of open BookingForms
  last,      \* what the last handler showed and which store calls it made
  fnIn,      \* the arguments of the pure function under check
  fnOut,     \* its result
  service_requests,  \* the service_requests table / self.data["service_requests"]
  requestsOpen,      \* the ServiceRequestWindow exists
  heap,              \* the ServiceRequest objects of the window and its forms, by reference
  requests,          \* ServiceRequestWindow.requests, a list of references
  requestForms       \* the open ServiceRequestForms and StatusForms with their self.request

srVars == <<service_requests, requestsOpen, heap, requests, requestForms>>

vars == <<variant, user, store, disk, open, bookings, listed, forms, last, fnIn, fnOut,
          srVars>>

appVars == <<variant, user, store, disk, open, bookings, listed, forms, last, srVars>>

amenityVars == <<store, disk, open, bookings, listed, forms>>

Windows == {1, 2}

\* What a handler run is seen to do: the dialog it shows ("" for none), the
\* value on_booking_saved returned, and its calls of set_amenity_bookings,
\* of DataStore.save and of on_changed.
Did(op, dialog, ret, sets, saves, notes) ==
  [op |-> op, dialog |-> dialog, ret |-> ret, sets |-> sets, saves |-> saves,
   notes |-> notes]

Quiet == Did("", "", "", 0, 0, 0)

NoWindows == [w \in Windows |-> FALSE]
NoLists == [w \in Windows |-> <<>>]
NoRows == [w \in Windows |-> 0]

\* on_changed is passed to AmenityWindow by the SQLite dashboard only.
Notes(v) == IF v = "sqlite" THEN 1 ELSE 0

\* CondoApp.__init__ and LoginFrame.do_login: the data file is new, or holds
\* what an earlier session of another user left in it.
AppStartBoth(seeds, requestSeeds) ==
  /\ variant \in Variants
  /\ user \in Users
  /\ store \in seeds
  /\ disk = store
  /\ open = NoWindows
  /\ bookings = NoLists
  /\ listed = NoRows
  /\ forms = EmptyBag
  /\ last = Quiet
  /\ service_requests \in requestSeeds
  /\ requestsOpen = FALSE
  /\ heap = NoObjects
  /\ requests = <<>>
  /\ requestForms = EmptyBag

AppStart(seeds) == AppStartBoth(seeds, {<<>>})

AppInit == AppStart(Seeds)

\* DashboardFrame.open_amenities: AmenityWindow.__init__ loads the list.
open_amenities(w) ==
  /\ ~open[w]
  /\ RowsLoadable(variant, store)
  /\ open' = [open EXCEPT ![w] = TRUE]
  /\ bookings' = [bookings EXCEPT ![w] = get_amenity_bookings(variant, store)]
  /\ listed' = [listed EXCEPT ![w] = Len(store)]
  /\ last' = Quiet
  /\ UNCHANGED <<variant, user, store, disk, forms, fnIn, fnOut, srVars>>

FormsOf(w) == {f \in BagToSet(forms) : f.win = w}

RECURSIVE DropForms(_, _)
DropForms(bag, fs) ==
  IF fs = {} THEN bag
  ELSE LET f == CHOOSE g \in fs : TRUE
       IN  DropForms([g \in DOMAIN bag \ {f} |-> bag[g]], fs \ {f})

\* The window is closed: Tk destroys it and the forms that are its children.
close_window(w) ==
  /\ open[w]
  /\ open' = [open EXCEPT ![w] = FALSE]
  /\ bookings' = [bookings EXCEPT ![w] = <<>>]
  /\ listed' = [listed EXCEPT ![w] = 0]
  /\ forms' = DropForms(forms, FormsOf(w))
  /\ last' = Quiet
  /\ UNCHANGED <<variant, user, store, disk, fnIn, fnOut, srVars>>

\* AmenityWindow.add_booking
add_booking(w) ==
  /\ open[w]
  /\ BagCardinality(forms) < MaxForms
  /\ forms' = forms (+) SetToBag({Form(w, TRUE, 0, "")})
  /\ last' = Quiet
  /\ UNCHANGED <<variant, user, store, disk, open, bookings, listed, fnIn, fnOut, srVars>>

\* The Cancel button of a BookingForm: self.destroy.
dismiss_form(f) ==
  /\ BagIn(f, forms)
  /\ forms' = forms (-) SetToBag({f})
  /\ last' = Quiet
  /\ UNCHANGED <<variant, user, store, disk, open, bookings, listed, fnIn, fnOut, srVars>>

\* get_selected_booking with row sel of the listbox selected (0: none): the
\* index of the booking, 0 when nothing is selected, -1 when the row is past
\* the end of self.bookings (IndexError, the handler ends there).
Selected(w, sel) ==
  IF sel = 0 THEN 0 ELSE IF sel > Len(bookings[w]) THEN -1 ELSE sel

Selections(w) == 0..listed[w]

\* AmenityWindow.edit_booking
edit_booking(w, sel) ==
  /\ open[w]
  /\ sel \in Selections(w)
  /\ LET i == Selected(w, sel)
     IN  IF i = 0
         THEN last' = Did("edit_booking", "Select", "", 0, 0, 0) /\ forms' = forms
         ELSE IF i < 0
         THEN last' = Did("edit_booking", "IndexError", "", 0, 0, 0) /\ forms' = forms
         ELSE IF ~_can_modify(user, bookings[w][i])
         THEN last' = Did("edit_booking", "Permission", "", 0, 0, 0) /\ forms' = forms
         ELSE /\ BagCardinality(forms) < MaxForms
              /\ forms' = forms (+) SetToBag({Form(w, FALSE, bookings[w][i].id,
                                                   bookings[w][i].created_by)})
              /\ last' = Quiet
  /\ UNCHANGED <<variant, user, store, disk, open, bookings, listed, fnIn, fnOut, srVars>>

\* AmenityWindow.save_and_refresh on the list the handler op leaves in
\* self.bookings.  When set_amenity_bookings raises, save, refresh_listbox and
\* on_changed are not reached and the handler ends with the exception.
save_and_refresh(w, list, op, dialog, ret) ==
  LET wr == set_amenity_bookings(variant, list)
  IN  /\ bookings' = [bookings EXCEPT ![w] = list]
      /\ store' = wr.rows
      /\ IF wr.ok
         THEN /\ disk' = wr.rows
              /\ listed' = [listed EXCEPT ![w] = Len(list)]
              /\ last' = Did(op, dialog, ret, 1, 1, Notes(variant))
         ELSE /\ UNCHANGED <<disk, listed>>
              /\ last' = Did(op, "IntegrityError", "raised", 1, 0, 0)

Untouched == UNCHANGED <<store, disk, bookings, listed>>

\* A slip in cancel_booking: the test for an already cancelled booking left
\* out.
cancel_booking_Again(w, sel, confirm) ==
  /\ open[w]
  /\ sel \in Selections(w)
  /\ LET i == Selected(w, sel)
     IN  IF i = 0
         THEN last' = Did("cancel_booking", "Select", "", 0, 0, 0) /\ Untouched
         ELSE IF i < 0
         THEN last' = Did("cancel_booking", "IndexError", "", 0, 0, 0) /\ Untouched
         ELSE IF ~_can_modify(user, bookings[w][i])
         THEN last' = Did("cancel_booking", "Permission", "", 0, 0, 0) /\ Untouched
         ELSE IF ~confirm
         THEN last' = Did("cancel_booking", "Confirm", "", 0, 0, 0) /\ Untouched
         ELSE save_and_refresh(w, [bookings[w] EXCEPT ![i].status = "Cancelled"],
                               "cancel_booking", "Confirm", "")
  /\ UNCHANGED <<variant, user, open, forms, fnIn, fnOut, srVars>>

\* AmenityWindow.cancel_booking; confirm is the answer to askyesno.
cancel_booking(w, sel, confirm) ==
  /\ open[w]
  /\ sel \in Selections(w)
  /\ LET i == Selected(w, sel)
     IN  IF i = 0
         THEN last' = Did("cancel_booking", "Select", "", 0, 0, 0) /\ Untouched
         ELSE IF i < 0
         THEN last' = Did("cancel_booking", "IndexError", "", 0, 0, 0) /\ Untouched
         ELSE IF ~_can_modify(user, bookings[w][i])
         THEN last' = Did("cancel_booking", "Permission", "", 0, 0, 0) /\ Untouched
         ELSE IF bookings[w][i].status = "Cancelled"
         THEN last' = Did("cancel_booking", "Info", "", 0, 0, 0) /\ Untouched
         ELSE IF ~confirm
         THEN last' = Did("cancel_booking", "Confirm", "", 0, 0, 0) /\ Untouched
         ELSE save_and_refresh(w, [bookings[w] EXCEPT ![i].status = "Cancelled"],
                               "cancel_booking", "Confirm", "")
  /\ UNCHANGED <<variant, user, open, forms, fnIn, fnOut, srVars>>

\* A slip in delete_booking: the answer to askyesno is not looked at.
delete_booking_Unasked(w, sel, confirm) ==
  /\ open[w]
  /\ sel \in Selections(w)
  /\ LET i == Selected(w, sel)
     IN  IF i = 0
         THEN last' = Did("delete_booking", "Select", "", 0, 0, 0) /\ Untouched
         ELSE IF i < 0
         THEN last' = Did("delete_booking", "IndexError", "", 0, 0, 0) /\ Untouched
         ELSE IF ~may_delete(variant, user, bookings[w][i])
         THEN last' = Did("delete_booking", "Permission", "", 0, 0, 0) /\ Untouched
         ELSE save_and_refresh(w, WithoutId(bookings[w], bookings[w][i].id),
                               "delete_booking", "Confirm", "")
  /\ UNCHANGED <<variant, user, open, forms, fnIn, fnOut, srVars>>

\* AmenityWindow.delete_booking; confirm is the answer to askyesno.
delete_booking(w, sel, confirm) ==
  /\ open[w]
  /\ sel \in Selections(w)
  /\ LET i == Selected(w, sel)
     IN  IF i = 0
         THEN last' = Did("delete_booking", "Select", "", 0, 0, 0) /\ Untouched
         ELSE IF i < 0
         THEN last' = Did("delete_booking", "IndexError", "", 0, 0, 0) /\ Untouched
         ELSE IF ~may_delete(variant, user, bookings[w][i])
         THEN last' = Did("delete_booking", "Permission", "", 0, 0, 0) /\ Untouched
         ELSE IF ~confirm
         THEN last' = Did("delete_booking", "Confirm", "", 0, 0, 0) /\ Untouched
         ELSE save_and_refresh(w, WithoutId(bookings[w], bookings[w][i].id),
                               "delete_booking", "Confirm", "")
  /\ UNCHANGED <<variant, user, open, forms, fnIn, fnOut, srVars>>

\* The unit entry of a form for a new booking is filled with the resident's
\* unit and disabled; every other entry is free.
UnitEntry(u, form, raw) ==
  IF form.is_new /\ ~is_admin(u) /\ u.unit # "" THEN u.unit ELSE raw.unit

WithinBounds(list) ==
  /\ Len(list) <= MaxBookings
  /\ \A i \in 1..Len(list) : list[i].id <= MaxId

\* The Save button of a BookingForm: BookingForm.save, and within it
\* on_booking_saved and save_and_refresh.  The form is destroyed when on_save
\* returns True.
save_form(f, raw) ==
  /\ BagIn(f, forms)
  /\ LET w == f.win
         typed == [raw EXCEPT !.unit = UnitEntry(user, f, raw)]
         r == BookingForm_save(variant, user, store, f, typed)
         s == on_booking_saved(bookings[w], r.booking, f.is_new)
     IN  IF ~r.accepted
         THEN /\ last' = Did("save", r.dialog, "", 0, 0, 0)
              /\ Untouched /\ forms' = forms
         ELSE IF ~s.ret
         THEN /\ last' = Did("save", "Conflict", "False", 0, 0, 0)
              /\ Untouched /\ forms' = forms
         ELSE /\ WithinBounds(s.list)
              /\ save_and_refresh(w, s.list, "save",
                                  IF is_admin(user) THEN "Resident notified" ELSE "",
                                  "True")
              /\ forms' = IF set_amenity_bookings(variant, s.list).ok
                          THEN forms (-) SetToBag({f}) ELSE forms
  /\ UNCHANGED <<variant, user, open, fnIn, fnOut, srVars>>

(***************************************************************************)
(* The Service Requests window.                                            *)
(***************************************************************************)
\* DashboardFrame.open_service_requests: ServiceRequestWindow.__init__ loads
\* the list, one new object per row.
open_service_requests ==
  /\ ~requestsOpen
  /\ Len(service_requests) < Cardinality(Refs)
  /\ requestsOpen' = TRUE
  /\ LET read == get_service_requests(variant, service_requests)
     IN  /\ heap' = [r \in Refs |-> IF r <= Len(read) THEN read[r] ELSE NoRequest]
         /\ requests' = [i \in 1..Len(read) |-> i]
  /\ requestForms' = EmptyBag
  /\ last' = Quiet
  /\ UNCHANGED <<variant, user, amenityVars, fnIn, fnOut, service_requests>>

\* The window is closed: Tk destroys it and the forms that are its children.
close_service_requests ==
  /\ requestsOpen
  /\ requestsOpen' = FALSE
  /\ heap' = NoObjects
  /\ requests' = <<>>
  /\ requestForms' = EmptyBag
  /\ last' = Quiet
  /\ UNCHANGED <<variant, user, amenityVars, fnIn, fnOut, service_requests>>

\* ServiceRequestWindow.new_request
new_request ==
  /\ requestsOpen
  /\ BagCardinality(requestForms) < MaxRequestForms
  /\ requestForms' = requestForms (+) SetToBag({RequestForm("ServiceRequestForm", 0)})
  /\ last' = Quiet
  /\ UNCHANGED <<variant, user, amenityVars, fnIn, fnOut, service_requests, requestsOpen,
                 heap, requests>>

\* The Cancel button of a ServiceRequestForm or a StatusForm: self.destroy.
dismiss_request_form(f) ==
  /\ BagIn(f, requestForms)
  /\ LET tidy == Collect(heap, requests, requestForms (-) SetToBag({f}))
     IN  /\ heap' = tidy.heap
         /\ requests' = tidy.requests
         /\ requestForms' = tidy.forms
  /\ last' = Quiet
  /\ UNCHANGED <<variant, user, amenityVars, fnIn, fnOut, service_requests, requestsOpen>>

\* get_selected with row sel of the listbox selected (0: none): a reference,
\* or 0 for None.
get_selected(sel) ==
  LET view == current_view(user, heap, requests)
  IN  IF sel = 0 \/ sel > Len(view) THEN 0 ELSE view[sel]

RequestRows == 0..MaxRequests

\* ServiceRequestWindow.edit_request
edit_request(sel) ==
  /\ requestsOpen
  /\ sel \in RequestRows /\ sel <= Len(current_view(user, heap, requests))
  /\ LET r == get_selected(sel)
     IN  IF r = 0
         THEN last' = Did("edit_request", "Select", "", 0, 0, 0)
              /\ requestForms' = requestForms
         ELSE IF ~is_admin(user) /\ heap[r].created_by # user.username
         THEN last' = Did("edit_request", "Permission", "", 0, 0, 0)
              /\ requestForms' = requestForms
         ELSE /\ BagCardinality(requestForms) < MaxRequestForms
              /\ requestForms' =
                   requestForms (+) SetToBag({RequestForm("ServiceRequestForm", r)})
              /\ last' = Quiet
  /\ UNCHANGED <<variant, user, amenityVars, fnIn, fnOut, service_requests, requestsOpen,
                 heap, requests>>

\* ServiceRequestWindow.change_status: the StatusForm is opened on the
\* selected object.
change_status(sel) ==
  /\ requestsOpen
  /\ sel \in RequestRows /\ sel <= Len(current_view(user, heap, requests))
  /\ LET r == get_selected(sel)
     IN  IF r = 0
         THEN last' = Did("change_status", "Select", "", 0, 0, 0)
              /\ requestForms' = requestForms
         ELSE IF ~is_admin(user)
         THEN last' = Did("change_status", "Permission", "", 0, 0, 0)
              /\ requestForms' = requestForms
         ELSE /\ BagCardinality(requestForms) < MaxRequestForms
              /\ requestForms' = requestForms (+) SetToBag({RequestForm("StatusForm", r)})
              /\ last' = Quiet
  /\ UNCHANGED <<variant, user, amenityVars, fnIn, fnOut, service_requests, requestsOpen,
                 heap, requests>>

\* ServiceRequestWindow.save_and_refresh on the list reqs of objects h, the
\* form f being destroyed when its handler gets that far.
persist_requests(h, reqs, f, op) ==
  LET wr == set_service_requests(variant, [i \in 1..Len(reqs) |-> h[reqs[i]]])
      left == IF wr.ok /\ f # RequestForm("", 0)
              THEN requestForms (-) SetToBag({f}) ELSE requestForms
      tidy == Collect(h, reqs, left)
  IN  /\ service_requests' = wr.rows
      /\ heap' = tidy.heap
      /\ requests' = tidy.requests
      /\ requestForms' = tidy.forms
      /\ last' = IF wr.ok THEN Did(op, "", "True", 1, 1, Notes(variant))
                 ELSE Did(op, "IntegrityError", "raised", 1, 0, 0)

\* ServiceRequestWindow.delete_request; confirm is the answer to askyesno.
delete_request(sel, confirm) ==
  /\ requestsOpen
  /\ sel \in RequestRows /\ sel <= Len(current_view(user, heap, requests))
  /\ LET r == get_selected(sel)
         quiet == UNCHANGED <<service_requests, heap, requests, requestForms>>
     IN  IF r = 0
         THEN last' = Did("delete_request", "Select", "", 0, 0, 0) /\ quiet
         ELSE IF ~may_delete_request(variant, user, heap[r])
         THEN last' = Did("delete_request", "Permission", "", 0, 0, 0) /\ quiet
         ELSE IF ~confirm
         THEN last' = Did("delete_request", "Confirm", "", 0, 0, 0) /\ quiet
         ELSE persist_requests(heap,
                               SelectSeq(requests, LAMBDA q : heap[q].id # heap[r].id),
                               RequestForm("", 0), "delete_request")
  /\ UNCHANGED <<variant, user, amenityVars, fnIn, fnOut, requestsOpen>>

\* The Save button of a StatusForm: StatusForm.save writes the status into
\* its object, and on_status_changed puts the object at the first place of
\* the list that holds a request with its id.
StatusForm_save(f, status) ==
  /\ BagIn(f, requestForms)
  /\ f.kind = "StatusForm"
  /\ LET h == [heap EXCEPT ![f.request].status = status]
     IN  persist_requests(h, ReplaceFirstRef(h, requests, f.request), f, "StatusForm.save")
  /\ UNCHANGED <<variant, user, amenityVars, fnIn, fnOut, requestsOpen>>

\* The unit entry of a form for a new request is filled with the resident's
\* unit and disabled.
RequestUnitEntry(u, f, raw) ==
  IF f.request = 0 /\ ~is_admin(u) /\ u.unit # "" THEN u.unit ELSE raw.unit

\* ServiceRequestForm.save: the ServiceRequest it makes; old is self.request
\* as it is at the time of the Save (NoRequest for None).
made_request(u, rows, old, unit, req_type, description) ==
  IF old # NoRequest
  THEN ServiceRequest(old.id, unit, req_type, description, old.status, old.created_by)
  ELSE ServiceRequest(next_id(rows), unit, req_type, description, "Submitted", u.username)

\* The Save button of a ServiceRequestForm: ServiceRequestForm.save, and
\* within it on_saved and save_and_refresh.  The entries carry no blanks.
ServiceRequestForm_save(f, raw) ==
  /\ BagIn(f, requestForms)
  /\ f.kind = "ServiceRequestForm"
  /\ LET unit == RequestUnitEntry(user, f, raw)
         old == IF f.request = 0 THEN NoRequest ELSE heap[f.request]
         req == made_request(user, service_requests, old, unit, raw.req_type,
                             raw.description)
         free == Refs \ Referenced(requests, requestForms)
         n == CHOOSE r \in free : \A q \in free : r <= q
         h == [heap EXCEPT ![n] = req]
         reqs == IF f.request = 0 THEN Append(requests, n)
                 ELSE ReplaceFirstRef(h, requests, n)
     IN  IF unit = "" \/ raw.req_type = "" \/ raw.description = ""
         THEN /\ last' = Did("ServiceRequestForm.save", "Error", "", 0, 0, 0)
              /\ UNCHANGED <<service_requests, heap, requests, requestForms>>
         ELSE /\ free # {}
              /\ Len(reqs) <= MaxRequests /\ req.id <= MaxId
              /\ persist_requests(h, reqs, f, "ServiceRequestForm.save")
  /\ UNCHANGED <<variant, user, amenityVars, fnIn, fnOut, requestsOpen>>

(***************************************************************************)
(* What the user types.                                                    *)
(***************************************************************************)
T0900 == <<"0", "9", ":", "0", "0">>
T1000 == <<"1", "0", ":", "0", "0">>
T1030 == <<"1", "0", ":", "3", "0">>
T1100 == <<"1", "1", ":", "0", "0">>
D0910 == <<"2", "0", "2", "5", "-", "0", "9", "-", "1", "0">>
D0910short == <<"2", "0", "2", "5", "-", "9", "-", "1", "0">>

\* The form submissions of the application model: two slots that touch, one
\* that overlaps both, and an end before the start.
Submissions ==
  { RawFields("101", "Meeting Room", D0910, T0900, T1000, "Booked"),
    RawFields("202", "Meeting Room", D0910, T1000, T1100, "Booked"),
    RawFields("101", "Meeting Room", D0910, T0900, T1030, "Cancelled"),
    RawFields("101", "Meeting Room", D0910, T1000, T0900, "Booked") }

\* More of what can be typed: a date that is not zero padded, a well-formed
\* booking of the same day, and a form with no unit.
OddSubmissions ==
  { RawFields("101", "Meeting Room", D0910short, T0900, T1030, "Booked"),
    RawFields("101", "Meeting Room", D0910, T0900, T1000, "Booked"),
    RawFields("", "Meeting Room", D0910, T0900, T1000, "Booked"),
    RawFields("101", "Meeting Room", D0910, T1000, T0900, "Booked") }

\* The form submission of the model with two windows.
FewSubmissions ==
  { RawFields("101", "Meeting Room", D0910, T0900, T1000, "Booked") }

(***************************************************************************)
(* Specifications.                                                         *)
(*   Spec         the Amenities window is open at most once at a time      *)
(*   SpecInputs   the same, with the odd submissions, with no row selected *)
(*                and with confirmations declined                          *)
(*   SpecWindows  the Amenities window is opened twice from the dashboard, *)
(*                on a new data file; bookings are added, cancelled and    *)
(*                deleted                                                  *)
(*   SpecRemove   one window on a collection with bookings of two units:   *)
(*                cancel and delete, confirmed or declined                 *)
(*   SpecResave   one window, bookings are edited only                     *)
(*   SpecSideBySide one Save carried out by both variants                  *)
(*   SpecConflict has_conflict applied to lists and candidates             *)
(*   SpecMalformed has_conflict applied to times that do not parse         *)
(*   SpecReuse    the largest id is deleted and a booking is created       *)
(*   SpecService  the Service Requests window, open once at a time         *)
(*   SpecValidate the date and time validators and the constructor applied *)
(*                to entry texts                                           *)
(***************************************************************************)
Init == AppInit /\ fnIn = <<>> /\ fnOut = <<>>

OnlyWindow == 1

Rows == 1..MaxBookings

Next ==
  \/ open_amenities(OnlyWindow)
  \/ close_window(OnlyWindow)
  \/ add_booking(OnlyWindow)
  \/ \E f \in BagToSet(forms) : dismiss_form(f)
  \/ \E sel \in Rows : edit_booking(OnlyWindow, sel)
  \/ \E sel \in Rows : cancel_booking(OnlyWindow, sel, TRUE)
  \/ \E sel \in Rows : delete_booking(OnlyWindow, sel, TRUE)
  \/ \E f \in BagToSet(forms), raw \in Submissions : save_form(f, raw)

Spec == Init /\ [][Next]_vars

NextInputs ==
  \/ open_amenities(OnlyWindow)
  \/ close_window(OnlyWindow)
  \/ add_booking(OnlyWindow)
  \/ \E f \in BagToSet(forms) : dismiss_form(f)
  \/ \E sel \in {0} \cup Rows : edit_booking(OnlyWindow, sel)
  \/ \E sel \in {0} \cup Rows, confirm \in BOOLEAN :
       cancel_booking(OnlyWindow, sel, confirm)
  \/ \E sel \in {0} \cup Rows, confirm \in BOOLEAN :
       delete_booking(OnlyWindow, sel, confirm)
  \/ \E f \in BagToSet(forms), raw \in OddSubmissions : save_form(f, raw)

SpecInputs == Init /\ [][NextInputs]_vars

NextWindows ==
  \/ \E w \in Windows : open_amenities(w)
  \/ \E w \in Windows : close_window(w)
  \/ \E w \in Windows : add_booking(w)
  \/ \E w \in Windows, sel \in Rows : cancel_booking(w, sel, TRUE)
  \/ \E w \in Windows, sel \in Rows : delete_booking(w, sel, TRUE)
  \/ \E f \in BagToSet(forms), raw \in FewSubmissions : save_form(f, raw)

InitWindows == Init /\ store = <<>>

SpecWindows == InitWindows /\ [][NextWindows]_vars

\* ---- the Service Requests window ----
\* What earlier sessions may have left in the store: a request of alice that
\* an admin has resolved, or a request of another resident.
ServiceSeeds ==
  { <<>>,
    <<ServiceRequest(1, "101", "Suggestion", "leak", "Resolved", "alice")>>,
    <<ServiceRequest(1, "202", "Question", "noise", "Submitted", "bob")>> }

ServiceSubmissions ==
  { RequestFields("101", "Service Request", "door"),
    RequestFields("101", "Service Request", "") }

\* Two of the three values of the StatusForm's list.
StatusChoices == {"Submitted", "Resolved"}

InitService ==
  /\ AppStartBoth({<<>>}, ServiceSeeds)
  /\ fnIn = <<>> /\ fnOut = <<>>

NextService ==
  \/ open_service_requests
  \/ close_service_requests
  \/ new_request
  \/ \E f \in BagToSet(requestForms) : dismiss_request_form(f)
  \/ \E sel \in RequestRows : edit_request(sel)
  \/ \E sel \in RequestRows : change_status(sel)
  \/ \E sel \in RequestRows, confirm \in BOOLEAN : delete_request(sel, confirm)
  \/ \E f \in BagToSet(requestForms), status \in StatusChoices : StatusForm_save(f, status)
  \/ \E f \in BagToSet(requestForms), raw \in ServiceSubmissions :
       ServiceRequestForm_save(f, raw)

SpecService == InitService /\ [][NextService]_vars

\* ---- cancel and delete on a collection of two units ----
SeedOther ==
  Booking(2, "202", "Party Room", D0910, T1000, T1100, "Booked", "bob")

RemoveSeeds == {<<SeedBooking>>, <<SeedBooking, SeedOther>>}

InitRemove == AppStart(RemoveSeeds) /\ fnIn = <<>> /\ fnOut = <<>>

NextRemove ==
  \/ open_amenities(OnlyWindow)
  \/ close_window(OnlyWindow)
  \/ add_booking(OnlyWindow)
  \/ \E f \in BagToSet(forms), raw \in FewSubmissions : save_form(f, raw)
  \/ \E sel \in {0} \cup Rows, confirm \in BOOLEAN :
       cancel_booking(OnlyWindow, sel, confirm)
  \/ \E sel \in {0} \cup Rows, confirm \in BOOLEAN :
       delete_booking(OnlyWindow, sel, confirm)

SpecRemove == InitRemove /\ [][NextRemove]_vars

\* ---- edit forms only, on bookings that carry the entries of Submissions ----
SeedA ==
  Booking(1, "101", "Meeting Room", D0910, T0900, T1000, "Booked", "alice")

SeedB ==
  Booking(2, "202", "Meeting Room", D0910, T1000, T1100, "Booked", "admin")

ResaveSeeds == {<<SeedA>>, <<SeedA, SeedB>>}

InitResave == AppStart(ResaveSeeds) /\ fnIn = <<>> /\ fnOut = <<>>

NextResave ==
  \/ open_amenities(OnlyWindow)
  \/ close_window(OnlyWindow)
  \/ \E sel \in Rows : edit_booking(OnlyWindow, sel)
  \/ \E f \in BagToSet(forms) : dismiss_form(f)
  \/ \E f \in BagToSet(forms), raw \in Submissions : save_form(f, raw)

SpecResave == InitResave /\ [][NextResave]_vars

\* ---- one Save in both variants, side by side ----
\* What a Save of form with the entries raw comes to in variant v, in a window
\* that has just loaded rows: whether on_save returned True, and the
\* bookings the window then holds.
SaveOutcome(v, u, rows, form, raw) ==
  LET typed == [raw EXCEPT !.unit = UnitEntry(u, form, raw)]
      r == BookingForm_save(v, u, rows, form, typed)
      list == get_amenity_bookings(v, rows)
      s == on_booking_saved(list, r.booking, form.is_new)
      kept == IF r.accepted THEN s.list ELSE list
  IN  [accepted |-> r.accepted /\ s.ret,
       bookings |-> {kept[i] : i \in 1..Len(kept)}]

SideBySideInputs ==
  { [u |-> u, rows |-> rows, form |-> form, raw |-> raw] :
      u \in Users, rows \in Seeds \cup RemoveSeeds,
      form \in {Form(OnlyWindow, TRUE, 0, ""), Form(OnlyWindow, FALSE, 1, "bob")},
      raw \in Submissions \cup OddSubmissions }

InitSideBySide ==
  /\ AppInit /\ variant = "sqlite" /\ user.role = "admin" /\ store = <<>>
  /\ fnIn \in SideBySideInputs
  /\ fnOut = <<>>

save_in_both ==
  /\ fnOut = <<>>
  /\ fnOut' = <<SaveOutcome("sqlite", fnIn.u, fnIn.rows, fnIn.form, fnIn.raw),
                SaveOutcome("json", fnIn.u, fnIn.rows, fnIn.form, fnIn.raw)>>
  /\ UNCHANGED <<appVars, fnIn>>

NextSideBySide == save_in_both

SpecSideBySide == InitSideBySide /\ [][NextSideBySide]_vars

\* ---- has_conflict on its own ----
D0911 == <<"2", "0", "2", "5", "-", "0", "9", "-", "1", "1">>

Slot(id, facility_type, date, start_time, end_time) ==
  Booking(id, "101", facility_type, date, start_time, end_time, "Booked", "alice")

\* Bookings a window may hold: two ids, two facilities, two days, two slots
\* that touch.
ExistingPool ==
  { Slot(id, fa, d, t[1], t[2]) :
      id \in 1..MaxId, fa \in {"Meeting Room", "Party Room"},
      d \in {D0910, D0911}, t \in {<<T0900, T1000>>, <<T1000, T1100>>} }

\* Candidates for the Meeting Room on 2025-09-10: slots that touch, overlap
\* or miss the pooled ones.
CandidatePool ==
  { Slot(id, "Meeting Room", D0910, t[1], t[2]) :
      id \in 1..MaxId,
      t \in {<<T0900, T1000>>, <<T0900, T1030>>, <<T1030, T1100>>, <<T1000, T1100>>} }

ConflictInputs ==
  { <<bs, c>> : bs \in UNION { [1..n -> ExistingPool] : n \in 0..MaxBookings },
                c \in CandidatePool }

InitConflict ==
  /\ AppInit /\ variant = "sqlite" /\ user.role = "admin" /\ store = <<>>
  /\ fnIn \in ConflictInputs
  /\ fnOut = <<>>

call_has_conflict ==
  /\ fnOut = <<>>
  /\ fnOut' = <<has_conflict(fnIn[1], fnIn[2])>>
  /\ UNCHANGED <<appVars, fnIn>>

NextConflict == call_has_conflict

SpecConflict == InitConflict /\ [][NextConflict]_vars

\* ---- has_conflict on times that do not parse ----
TimesGoodAndBad == {T0900, T1000, T1100, <<"a", "a", ":", "b", "b">>, <<"1", "2", "0", "0">>}

MalformedInputs ==
  { <<bs, Slot(2, "Meeting Room", D0910, t[1], t[2])>> :
      bs \in {<<>>} \cup { <<Slot(1, "Meeting Room", D0910, e[1], e[2])>> :
                              e \in TimesGoodAndBad \X TimesGoodAndBad },
      t \in TimesGoodAndBad \X TimesGoodAndBad }

InitMalformed ==
  /\ AppInit /\ variant = "sqlite" /\ user.role = "admin" /\ store = <<>>
  /\ fnIn \in MalformedInputs
  /\ fnOut = <<>>

SpecMalformed == InitMalformed /\ [][NextConflict]_vars

\* ---- the largest id is deleted, then a booking is created ----
Kept1 == Slot(1, "Party Room", D0910, T0900, T1000)
Kept2 == Slot(2, "Party Room", D0910, T1000, T1100)
Kept3 == Slot(3, "Party Room", D0911, T0900, T1000)

\* Collections that creates and deletes of earlier sessions leave behind.
ReuseSeeds ==
  { <<Kept1>>, <<Kept2>>, <<Kept3>>, <<Kept1, Kept2>>, <<Kept1, Kept3>>,
    <<Kept2, Kept3>>, <<Kept1, Kept2, Kept3>> }

ReuseInputs ==
  { [v |-> v, u |-> u, rows |-> rows, raw |-> raw] :
      v \in Variants, u \in Users, rows \in ReuseSeeds, raw \in Submissions }

InitReuse ==
  /\ AppInit /\ variant = "sqlite" /\ user.role = "admin" /\ store = <<>>
  /\ fnIn \in ReuseInputs
  /\ fnOut = <<>>

\* In one window: Delete on the row of the largest id, confirmed, then Add and
\* Save.  deleted is the id taken out (0 when the delete is refused), created
\* the id of the booking the Save appended (0 when the Save is rejected).
delete_largest_then_create ==
  /\ fnOut = <<>>
  /\ LET v == fnIn.v
         u == fnIn.u
         list == get_amenity_bookings(v, fnIn.rows)
         i == CHOOSE k \in 1..Len(list) : list[k].id = MaxOf(Ids(list))
         after == WithoutId(list, list[i].id)
         wr == set_amenity_bookings(v, after)
         form == Form(OnlyWindow, TRUE, 0, "")
         typed == [fnIn.raw EXCEPT !.unit = UnitEntry(u, form, fnIn.raw)]
         r == BookingForm_save(v, u, wr.rows, form, typed)
         s == on_booking_saved(after, r.booking, TRUE)
     IN  fnOut' =
           IF ~may_delete(v, u, list[i])
           THEN <<[deleted |-> 0, created |-> 0]>>
           ELSE <<[deleted |-> list[i].id,
                   created |-> IF r.accepted /\ s.ret THEN r.booking.id ELSE 0]>>
  /\ UNCHANGED <<appVars, fnIn>>

NextReuse == delete_largest_then_create

SpecReuse == InitReuse /\ [][NextReuse]_vars

\* ---- the validators and the constructor on their own ----
YearTexts ==
  { <<"2", "0", "2", "5">>,
    <<"2", "0", "2", "4">>,
    <<"2", "0", "2", "6">>,
    <<"2", "0", "2", "8">>,
    <<"0", "0", "0", "0">>,
    <<"2", "0", "2", "U+0660">> }

MonthTexts ==
  { <<"0", "9">>,
    <<"9">>,
    <<"1", "3">>,
    <<"0", "2">>,
    <<"0", "0">>,
    <<"0", "8">>,
    <<"1", "U+0660">> }

DayTexts ==
  { <<"0", "1">>,
    <<"0", "2">>,
    <<"2">>,
    <<"1", "0">>,
    <<"2", "9">>,
    <<"3", "0">>,
    <<"3", "1">>,
    <<"0", "0">>,
    <<"1", "U+0660">> }

\* Date entries: every year-month-day of the texts above joined by "-", and
\* four strings of another make.
DateTexts ==
  { y \o <<"-">> \o m \o <<"-">> \o d : y \in YearTexts, m \in MonthTexts, d \in DayTexts }
  \cup
  { <<>>,
    <<"2", "0", "2", "5", "/", "0", "9", "/", "1", "0">>,
    <<"2", "0", "2", "5", "-", "0", "9", "-", "1", "0", " ">>,
    <<"a", "a", "a", "a", "-", "b", "b", "-", "c", "c">> }

HourTexts ==
  { <<"0", "0">>,
    <<"0", "9">>,
    <<"9">>,
    <<"2", "3">>,
    <<"2", "4">>,
    <<"1", "2">>,
    <<"a", "a">>,
    <<"U+0660", "9">>,
    <<"9", "9">> }

MinuteTexts ==
  { <<"0", "0">>,
    <<"0">>,
    <<"5", "9">>,
    <<"6", "0">>,
    <<"b", "b">>,
    <<"3", "U+0660">> }

TimeTexts ==
  { h \o <<":">> \o m : h \in HourTexts, m \in MinuteTexts }
  \cup
  { <<>>,
    <<"1", "2", ":", "0", "0", ":", "0", "0">>,
    <<"1", "2", "0", "0">>,
    <<" ", "1", "2", ":", "0", "0">> }

\* Arguments of the constructor: three dates and every pair of five times.
BookingTexts ==
  { <<d, st, et>> :
      d \in { D0910, D0910short, <<"2", "0", "2", "5", "-", "0", "9", "-", "0", "1">> },
      st \in { T0900, T1000, T1030, <<"2", "4", ":", "0", "0">>, <<"9", ":", "0", "0">> },
      et \in { T0900, T1000, T1030, <<"2", "4", ":", "0", "0">>, <<"9", ":", "0", "0">> } }

ValidateInputs ==
  { [fn |-> "_validate_and_normalize_date", arg |-> d] : d \in DateTexts }
  \cup { [fn |-> "_validate_time", arg |-> t] : t \in TimeTexts }
  \cup { [fn |-> "AmenityBooking", arg |-> a] : a \in BookingTexts }

InitValidate ==
  /\ AppInit /\ variant = "sqlite" /\ user.role = "admin" /\ store = <<>>
  /\ fnIn \in ValidateInputs
  /\ fnOut = <<>>

call__validate_and_normalize_date ==
  /\ fnIn.fn = "_validate_and_normalize_date" /\ fnOut = <<>>
  /\ fnOut' = <<_validate_and_normalize_date(fnIn.arg)>>
  /\ UNCHANGED <<appVars, fnIn>>

call__validate_time ==
  /\ fnIn.fn = "_validate_time" /\ fnOut = <<>>
  /\ fnOut' = <<_validate_time(fnIn.arg)>>
  /\ UNCHANGED <<appVars, fnIn>>

\* AmenityBooking(...) as BookingForm.save calls it for a new booking, and the
\* outcome of that Save.
call_AmenityBooking ==
  /\ fnIn.fn = "AmenityBooking" /\ fnOut = <<>>
  /\ fnOut' = <<AmenityBooking(variant, next_id(store), "101", "Meeting Room",
                               fnIn.arg[1], fnIn.arg[2], fnIn.arg[3], "Booked",
                               user.username),
                BookingForm_save(variant, user, store, Form(OnlyWindow, TRUE, 0, ""),
                                 RawFields("101", "Meeting Room", fnIn.arg[1],
                                           fnIn.arg[2], fnIn.arg[3], "Booked"))>>
  /\ UNCHANGED <<appVars, fnIn>>

NextValidate ==
  \/ call__validate_and_normalize_date
  \/ call__validate_time
  \/ call_AmenityBooking

SpecValidate == InitValidate /\ [][NextValidate]_vars


(***************************************************************************)
(* Readings of stored fields used to state the properties.                 *)
(***************************************************************************)
\* The calendar day a stored date string denotes.
DayOf(date) ==
  LET parts == Split(date, "-")
  IN  <<DigitsVal(parts[1]), DigitsVal(parts[2]), DigitsVal(parts[3])>>

\* Minutes since midnight of a well-formed "HH:MM" string.
MinutesOf(t) ==
  (DigitVal(t[1]) * 10 + DigitVal(t[2])) * 60 + DigitVal(t[4]) * 10 + DigitVal(t[5])

\* Two bookings hold the same facility on the same day at overlapping times.
DoubleBooked(a, b) ==
  /\ a.id # b.id
  /\ a.facility_type = b.facility_type
  /\ DayOf(a.date) = DayOf(b.date)
  /\ parse_time_to_minutes(a.start_time) < parse_time_to_minutes(b.end_time)
  /\ parse_time_to_minutes(b.start_time) < parse_time_to_minutes(a.end_time)

NoDoubleBooking(bs) ==
  \A i, j \in 1..Len(bs) : ~DoubleBooked(bs[i], bs[j])

\* C1: in a session of one AmenityWindow no two bookings with different ids,
\* in the window's list or in the store, have the same facility and the same
\* date and overlapping [start_time, end_time) intervals.
C1_NoOverlappingBookings ==
  /\ NoDoubleBooking(store)
  /\ \A w \in Windows : open[w] => NoDoubleBooking(bookings[w])
UniqueIds(bs) == \A i, j \in 1..Len(bs) : i # j => bs[i].id # bs[j].id

\* C2: after every successful write of the booking collection no two
\* bookings of the persisted collection share an id, also when two
\* AmenityWindows work on the same DataStore.
C2_UniqueIdsAfterWrite == last.saves = 1 => UniqueIds(disk)
\* The conflict of the specification: another booking of the same facility
\* and date whose half-open interval meets the candidate's.
Conflicts(bs, c) ==
  \E i \in 1..Len(bs) :
    /\ bs[i].id # c.id
    /\ bs[i].facility_type = c.facility_type
    /\ bs[i].date = c.date
    /\ MinutesOf(bs[i].start_time) < MinutesOf(c.end_time)
    /\ MinutesOf(c.start_time) < MinutesOf(bs[i].end_time)

\* The booking a Save of form f with the entries raw hands to on_save.
Candidate(f, raw) ==
  BookingForm_save(variant, user, store, f,
                   [raw EXCEPT !.unit = UnitEntry(user, f, raw)])

\* A step that leaves the window lists, the store and the durable collection
\* alone, keeps the form open, persists nothing and reports False.
NothingSaved ==
  /\ last'.ret = "False"
  /\ last'.sets = 0 /\ last'.saves = 0
  /\ bookings' = bookings /\ store' = store /\ disk' = disk
  /\ forms' = forms

\* C3: a create or an edit whose candidate conflicts with an existing booking
\* is rejected: on_booking_saved returns False, the window's list, the store
\* and the durable collection are what they were, and no persistence call is
\* made.  (Stated as: a Save step either saved nothing, or its candidate did
\* not conflict.)
C3_ConflictRejected ==
  [][last'.op = "save" =>
       \/ NothingSaved
       \/ \A f \in BagToSet(forms), raw \in Submissions :
            LET c == Candidate(f, raw)
            IN  ~(/\ c.accepted
                  /\ Conflicts(bookings[f.win], c.booking)
                  /\ save_form(f, raw))]_vars

\* A create and an edit have been rejected as conflicts.
C3_Witness ==
  /\ last.op = "save" /\ last.dialog = "Conflict"
  /\ \E f \in BagToSet(forms) : ~f.is_new
\* C4: for well-formed times has_conflict(candidate) is true exactly when
\* another booking (different id) of the same facility and date has
\* start < candidate end and candidate start < end, in minutes since midnight;
\* touching slots do not conflict, 09:00-10:30 and 10:00-11:00 do, and another
\* facility or another date never conflicts.
C4_HasConflictIffOverlap ==
  fnOut # <<>> =>
    LET bs == fnIn[1]
        c  == fnIn[2]
    IN  /\ fnOut[1] = Conflicts(bs, c)
        /\ (\A i \in 1..Len(bs) :
              \/ bs[i].facility_type # c.facility_type
              \/ bs[i].date # c.date
              \/ bs[i].end_time = c.start_time
              \/ bs[i].start_time = c.end_time) => fnOut[1] = FALSE
        /\ (\E i \in 1..Len(bs) :
              /\ bs[i].id # c.id /\ bs[i].facility_type = c.facility_type
              /\ bs[i].date = c.date
              /\ bs[i].start_time = T1000 /\ bs[i].end_time = T1100
              /\ c.start_time = T0900 /\ c.end_time = T1030) => fnOut[1] = TRUE

\* has_conflict has answered for a candidate that touches one booking and
\* overlaps none, and the answer was False.
C4_Witness ==
  /\ fnOut = <<FALSE>>
  /\ Len(fnIn[1]) = 2
  /\ \E i \in 1..2 :
       /\ fnIn[1][i].id # fnIn[2].id
       /\ fnIn[1][i].facility_type = fnIn[2].facility_type
       /\ fnIn[1][i].date = fnIn[2].date
       /\ fnIn[1][i].end_time = fnIn[2].start_time
\* The candidate meets the slot of a Cancelled booking.
ConflictsWithCancelled(bs, c) ==
  \E i \in 1..Len(bs) :
    /\ bs[i].status = "Cancelled"
    /\ Conflicts(<<bs[i]>>, c)

\* C5: a Cancelled booking still occupies its slot: a create or an edit whose
\* candidate (of either status) has the facility and date of a Cancelled
\* booking, another id and an overlapping interval is rejected as a conflict.
C5_CancelledStillBlocks ==
  [][last'.op = "save" =>
       \/ last'.dialog = "Conflict" /\ NothingSaved
       \/ \A f \in BagToSet(forms), raw \in Submissions :
            LET c == Candidate(f, raw)
            IN  ~(/\ c.accepted
                  /\ ConflictsWithCancelled(bookings[f.win], c.booking)
                  /\ save_form(f, raw))]_vars

\* A Save has been rejected as a conflict in a window all of whose bookings
\* are Cancelled.
C5_Witness ==
  /\ last.op = "save" /\ last.dialog = "Conflict"
  /\ bookings[OnlyWindow] # <<>>
  /\ \A i \in 1..Len(bookings[OnlyWindow]) : bookings[OnlyWindow][i].status = "Cancelled"

\* The permission rule of the specification for edit and cancel.
MayModify(b) == user.role = "admin" \/ b.created_by = user.username

\* C6: edit and cancel go ahead only for an admin or the creator of the
\* booking; otherwise the operation is refused and the window's list, the
\* store and the durable collection do not change.  In a resident's session no
\* booking created by somebody else has a field or its status changed.
C6_ModifyGate ==
  [][/\ \A w \in Windows, sel \in Rows :
          (/\ open[w] /\ sel <= Len(bookings[w])
           /\ ~MayModify(bookings[w][sel])
           /\ (edit_booking(w, sel) \/ cancel_booking(w, sel, TRUE)))
          => /\ last'.dialog = "Permission"
             /\ bookings' = bookings /\ store' = store /\ disk' = disk
             /\ forms' = forms
     /\ user.role # "admin" =>
          \A i \in 1..Len(store), j \in 1..Len(store') :
            (store[i].created_by # user.username /\ store'[j].id = store[i].id)
            => store'[j] = store[i]]_vars

\* A resident has been refused the edit or the cancel of somebody else's
\* booking.
C6_Witness ==
  /\ user.role = "resident"
  /\ last.op \in {"edit_booking", "cancel_booking"}
  /\ last.dialog = "Permission"
  /\ \E i \in 1..Len(store) : store[i].created_by # user.username

\* The largest id of a non-empty collection.
LargestId(bs) ==
  CHOOSE m \in {bs[i].id : i \in 1..Len(bs)} : \A i \in 1..Len(bs) : bs[i].id <= m

\* C10: a newly created booking gets the largest id of the persisted
\* collection at the moment of the Save plus one, or 1 when the collection is
\* empty; a rejected create leaves the collection, and so the next id, as it
\* was.
C10_NextId ==
  [][last'.op = "save" =>
       \A w \in Windows :
         /\ (last'.ret = "True" /\ Len(bookings'[w]) = Len(bookings[w]) + 1)
            => bookings'[w][Len(bookings'[w])].id =
                 IF store = <<>> THEN 1 ELSE LargestId(store) + 1
         /\ last'.ret # "True" => store' = store /\ disk' = disk]_vars

\* A create on a collection that held id 1 has been saved with id 2.
C10_Witness ==
  /\ last.op = "save" /\ last.ret = "True"
  /\ Len(store) = 2
  /\ \E i \in 1..2 : store[i].id = 2 /\ store[i].created_by = user.username
\* The delete permission of the specification.
MayDelete(b) ==
  \/ user.role = "admin"
  \/ variant = "sqlite" /\ b.unit = user.unit

AsSet(bs) == {bs[i] : i \in 1..Len(bs)}

NothingChanged ==
  /\ bookings' = bookings /\ store' = store /\ disk' = disk
  /\ last'.sets = 0 /\ last'.saves = 0

\* C7: an admin may delete any booking in both variants; a resident of the
\* SQLite variant may delete exactly the bookings of the resident's own unit,
\* whoever created them; a resident of the JSON variant may delete none.  A
\* refused delete changes neither the window's list nor the collection.
C7_DeleteGate ==
  [][\A w \in Windows, sel \in Rows, confirm \in BOOLEAN :
       (/\ open[w] /\ sel <= Len(bookings[w])
        /\ delete_booking(w, sel, confirm))
       => IF MayDelete(bookings[w][sel])
          THEN /\ last'.dialog = "Confirm"
               /\ confirm =>
                    /\ last'.saves = 1
                    /\ \A j \in 1..Len(disk') : disk'[j].id # bookings[w][sel].id
          ELSE /\ last'.dialog = "Permission"
               /\ NothingChanged]_vars

\* A resident of the SQLite variant has deleted the booking that bob made for
\* the resident's unit; the booking of the other unit is still there.
C7_Witness ==
  /\ variant = "sqlite" /\ user.role = "resident"
  /\ last.op = "delete_booking" /\ last.saves = 1
  /\ store = <<SeedOther>>

\* C8: a confirmed cancel by a permitted user of a Booked booking sets its
\* status to Cancelled, leaves every other field and every other booking as
\* they were, and persists the collection; a cancel of a booking that is
\* already Cancelled changes nothing and persists nothing.
C8_CancelEffect ==
  [][\A w \in Windows, sel \in Rows, confirm \in BOOLEAN :
       (/\ open[w] /\ sel <= Len(bookings[w])
        /\ cancel_booking(w, sel, confirm))
       => LET b == bookings[w][sel]
          IN  /\ (MayModify(b) /\ confirm /\ b.status = "Booked")
                 => /\ bookings'[w] =
                         [bookings[w] EXCEPT ![sel] = [b EXCEPT !.status = "Cancelled"]]
                    /\ last'.saves = 1
                    /\ AsSet(disk') = AsSet(bookings'[w])
              /\ b.status = "Cancelled" => NothingChanged]_vars

\* A booking has been cancelled and a second cancel of it has been answered
\* with the information dialog.
C8_Witness ==
  /\ last.op = "cancel_booking" /\ last.dialog = "Info"
  /\ \E i \in 1..Len(store) : store[i].status = "Cancelled"

\* C9: a permitted, confirmed delete of id k removes exactly the bookings with
\* id k, leaves the others unchanged in content and relative order, and
\* persists the reduced collection; the filter of delete applied with an id
\* that is not in the list returns the list as it is.
C9_DeleteEffect ==
  /\ [][\A w \in Windows, sel \in Rows :
          (/\ open[w] /\ sel <= Len(bookings[w])
           /\ MayDelete(bookings[w][sel])
           /\ delete_booking(w, sel, TRUE))
          => /\ bookings'[w] =
                  SelectSeq(bookings[w], LAMBDA b : b.id # bookings[w][sel].id)
             /\ last'.saves = 1
             /\ AsSet(disk') = AsSet(bookings'[w])]_vars
  /\ [](\A w \in Windows, k \in 1..(MaxId + 1) :
          (\A i \in 1..Len(bookings[w]) : bookings[w][i].id # k)
          => WithoutId(bookings[w], k) = bookings[w])

\* One of two bookings has been deleted and the other is still stored.
C9_Witness ==
  /\ last.op = "delete_booking" /\ last.saves = 1
  /\ Len(store) = 1 /\ bookings[OnlyWindow] = store
\* The number written by the characters i..j of s.
NumberAt(s, i, j) ==
  LET RECURSIVE Upto(_)
      Upto(k) == IF k < i THEN 0 ELSE Upto(k - 1) * 10 + DigitVal(s[k])
  IN  Upto(j)

\* Four digits, '-', two digits, '-', two digits.
IsDateShaped(s) ==
  /\ Len(s) = 10
  /\ s[5] = "-" /\ s[8] = "-"
  /\ \A i \in (1..10) \ {5, 8} : s[i] \in Digits

\* The shaped string names a day of the calendar.
IsRealDate(s) ==
  LET y == NumberAt(s, 1, 4)
      m == NumberAt(s, 6, 7)
      d == NumberAt(s, 9, 10)
      leap == (y % 4 = 0 /\ y % 100 # 0) \/ y % 400 = 0
  IN  /\ y >= 1 /\ m \in 1..12 /\ d >= 1
      /\ d <= (CASE m \in {1, 3, 5, 7, 8, 10, 12} -> 31
                 [] m \in {4, 6, 9, 11} -> 30
                 [] OTHER -> IF leap THEN 29 ELSE 28)

\* The shaped string is 2025-09-02 or a later day.
IsOnOrAfterMinimum(s) ==
  NumberAt(s, 1, 4) * 10000 + NumberAt(s, 6, 7) * 100 + NumberAt(s, 9, 10) >= 20250902

\* C11: date validation accepts a string exactly when it is shaped
\* dddd-dd-dd, names a real date and the date is 2025-09-02 or later, and then
\* returns the string unchanged; a wrong shape gives the format error, else a
\* date that does not exist the invalid-date error, else an early date the
\* too-early error.
C11_ValidateDate ==
  (fnOut # <<>> /\ fnIn.fn = "_validate_and_normalize_date") =>
    LET s == fnIn.arg
        r == fnOut[1]
    IN  /\ r.ok <=> (IsDateShaped(s) /\ IsRealDate(s) /\ IsOnOrAfterMinimum(s))
        /\ r.ok => r.value = s
        /\ ~IsDateShaped(s) => r.err = "FormatError"
        /\ (IsDateShaped(s) /\ ~IsRealDate(s)) => r.err = "InvalidDateError"
        /\ (IsDateShaped(s) /\ IsRealDate(s) /\ ~IsOnOrAfterMinimum(s))
             => r.err = "TooEarlyError"

\* Two digits, ':', two digits, hour 0..23, minute 0..59.
IsClockTime(s) ==
  /\ Len(s) = 5
  /\ s[3] = ":"
  /\ \A i \in {1, 2, 4, 5} : s[i] \in Digits
  /\ NumberAt(s, 1, 2) <= 23
  /\ NumberAt(s, 4, 5) <= 59

\* C12: time validation accepts a string exactly when it is two digits, ':',
\* two digits with hour 0..23 and minute 0..59, and returns it unchanged;
\* "00:00" and "23:59" are accepted, "9:00", "12:0" and "aa:bb" get the format
\* error and "24:00" the range error.
C12_ValidateTime ==
  (fnOut # <<>> /\ fnIn.fn = "_validate_time") =>
    LET s == fnIn.arg
        r == fnOut[1]
    IN  /\ r.ok <=> IsClockTime(s)
        /\ r.ok => r.value = s
        /\ s \in {<<"0", "0", ":", "0", "0">>, <<"2", "3", ":", "5", "9">>} => r.ok
        /\ s \in {<<"9", ":", "0", "0">>, <<"1", "2", ":", "0">>, <<"a", "a", ":", "b", "b">>}
             => ~r.ok /\ r.err = "FormatError"
        /\ s = <<"2", "4", ":", "0", "0">> => ~r.ok /\ r.err = "RangeError"

\* _validate_time has refused "24:00" with the range error.
C12_Witness ==
  /\ fnOut # <<>> /\ fnIn.fn = "_validate_time"
  /\ fnIn.arg = <<"2", "4", ":", "0", "0">>
  /\ fnOut[1].err = "RangeError"

\* C13 (constructor of CCT211.py): with a valid date and two valid times the
\* construction fails with the ordering error when start_time is equal to or
\* later than end_time and succeeds when it is strictly earlier; when the
\* construction fails there is no booking and the Save hands nothing to
\* on_save.
C13_OrderingError ==
  (fnOut # <<>> /\ fnIn.fn = "AmenityBooking") =>
    LET d == fnIn.arg[1]
        st == fnIn.arg[2]
        et == fnIn.arg[3]
        made == fnOut[1]
        saved == fnOut[2]
        valid == /\ IsDateShaped(d) /\ IsRealDate(d) /\ IsOnOrAfterMinimum(d)
                 /\ IsClockTime(st) /\ IsClockTime(et)
    IN  /\ (valid /\ MinutesOf(st) >= MinutesOf(et))
             => ~made.ok /\ made.err = "OrderingError"
        /\ (valid /\ MinutesOf(st) < MinutesOf(et))
             => /\ made.ok
                /\ made.value.date = d
                /\ made.value.start_time = st /\ made.value.end_time = et
        /\ ~made.ok => /\ made.value = <<>>
                        /\ ~saved.accepted /\ saved.booking = NoBooking

\* The constructor has refused two valid times of which the first is the
\* later.
C13_Witness ==
  /\ fnOut # <<>> /\ fnIn.fn = "AmenityBooking"
  /\ fnIn.arg[2] = T1030 /\ fnIn.arg[3] = T1000
  /\ fnOut[1].err = "OrderingError"
\* The date and the times of a booking are as the rules of AmenityBooking
\* require.
WellFormed(b) ==
  /\ IsDateShaped(b.date) /\ IsRealDate(b.date) /\ IsOnOrAfterMinimum(b.date)
  /\ IsClockTime(b.start_time) /\ IsClockTime(b.end_time)
  /\ MinutesOf(b.start_time) < MinutesOf(b.end_time)

\* C14: in both variants every booking in a window's list or in the persisted
\* collection has a date shaped YYYY-MM-DD that is a real date on or after
\* 2025-09-02, times shaped HH:MM with hour 0..23 and minute 0..59, and a
\* start_time strictly before the end_time.
C14_StoredBookingsWellFormed ==
  /\ \A i \in 1..Len(store) : WellFormed(store[i])
  /\ \A i \in 1..Len(disk) : WellFormed(disk[i])
  /\ \A w \in Windows : \A i \in 1..Len(bookings[w]) : WellFormed(bookings[w][i])
\* The operation last carried out went through: a Save that returned True, or
\* a confirmed cancel or delete that reached save_and_refresh.
Succeeded ==
  \/ last.op = "save" /\ last.ret = "True"
  \/ /\ last.op \in {"cancel_booking", "delete_booking"}
     /\ last.dialog = "Confirm" /\ last.sets = 1

\* C15: every create, edit, cancel or delete that succeeds makes exactly one
\* persistence call (set_amenity_bookings, then save) and exactly one
\* on_changed notification, in both variants and for both kinds of user.
C15_OnePersistOneNotify ==
  Succeeded => last.sets = 1 /\ last.saves = 1 /\ last.notes = 1

\* The selection sel of window w cannot be cancelled, or the user declines.
CancelFails(w, sel, confirm) ==
  \/ sel = 0 \/ sel > Len(bookings[w])
  \/ ~MayModify(bookings[w][sel])
  \/ bookings[w][sel].status = "Cancelled"
  \/ ~confirm

\* The selection sel of window w cannot be deleted, or the user declines.
DeleteFails(w, sel, confirm) ==
  \/ sel = 0 \/ sel > Len(bookings[w])
  \/ ~MayDelete(bookings[w][sel])
  \/ ~confirm

\* C16: nothing is persisted before validation and the conflict check have
\* passed: an operation that fails (a field missing or refused, a conflict, no
\* permission, already cancelled, confirmation declined, nothing selected)
\* makes no persistence call and leaves the window's list and the persisted
\* collection as they were.
C16_FailureChangesNothing ==
  [][\/ NothingChanged
     \/ /\ \A w \in Windows, sel \in {0} \cup Rows, confirm \in BOOLEAN :
             /\ ~(CancelFails(w, sel, confirm) /\ cancel_booking(w, sel, confirm))
             /\ ~(DeleteFails(w, sel, confirm) /\ delete_booking(w, sel, confirm))
             /\ ~edit_booking(w, sel)
        /\ \A f \in BagToSet(forms), raw \in OddSubmissions :
             LET c == Candidate(f, raw)
             IN  ~(/\ ~c.accepted \/ Conflicts(bookings[f.win], c.booking)
                   /\ save_form(f, raw))]_vars

\* A Save has been refused by the constructor while the collection held a
\* booking.
C16_Witness ==
  /\ last.op = "save" /\ last.dialog = "Invalid Booking"
  /\ last.sets = 0 /\ last.saves = 0
  /\ store # <<>>
\* C17: a persisted booking stays in the persisted collection until a delete
\* of its id succeeds: no create, edit or cancel removes a booking, also when
\* the Amenities window is open more than once on the same DataStore.
C17_OnlyDeleteRemoves ==
  [][last'.op \in {"save", "cancel_booking"} =>
       \A i \in 1..Len(disk) : \E j \in 1..Len(disk') : disk'[j].id = disk[i].id]_vars
\* C18: a successful edit keeps the booking's id and its position, leaves the
\* number of bookings and every other booking as they were, and gives the
\* booking the status of the form, which is its old status unless the form's
\* differs; a Cancelled booking is opened for edit under the same permission
\* rule as a Booked one.
C18_EditEffect ==
  [][/\ (last'.op = "save" /\ last'.ret = "True") =>
          \A f \in BagToSet(forms), raw \in Submissions :
            (~f.is_new /\ save_form(f, raw))
            => LET old == bookings[f.win]
                   new == bookings'[f.win]
               IN  /\ Len(new) = Len(old)
                   /\ \A i \in 1..Len(old) :
                        /\ new[i].id = old[i].id
                        /\ old[i].id # f.id => new[i] = old[i]
                        /\ old[i].id = f.id =>
                             /\ new[i].status = raw.status
                             /\ raw.status = old[i].status
                                  => new[i].status = old[i].status
     /\ \A w \in Windows, sel \in Rows :
          (/\ open[w] /\ sel <= Len(bookings[w])
           /\ bookings[w][sel].status = "Cancelled"
           /\ MayModify(bookings[w][sel])
           /\ edit_booking(w, sel))
          => /\ last'.dialog # "Permission"
             /\ \E f \in BagToSet(forms') : ~f.is_new /\ f.id = bookings[w][sel].id]_vars

\* The first of two bookings, made by bob, has been edited: it has new
\* fields, its id and its place.
C18_Witness ==
  /\ last.op = "save" /\ last.ret = "True"
  /\ Len(store) = 2
  /\ store[1].id = 1 /\ store[1].created_by = "bob" /\ store[1].unit = "202"
  /\ bookings[OnlyWindow] = store
\* C19: created_by of a booking is the username of the user who created it:
\* a booking that enters the collection carries the acting user's username,
\* and no step changes the created_by of a booking that stays in the
\* collection.
C19_CreatorKept ==
  [][\A j \in 1..Len(disk') :
       IF \E i \in 1..Len(disk) : disk[i].id = disk'[j].id
       THEN \A i \in 1..Len(disk) :
              disk[i].id = disk'[j].id => disk'[j].created_by = disk[i].created_by
       ELSE disk'[j].created_by = user.username]_vars
\* C20: a booking never conflicts with itself: saving an edit form of an
\* existing booking with every field as it is is not rejected as a conflict
\* and leaves the contents of the collection as they were; an edit that is
\* rejected as a conflict overlaps a booking with another id.
C20_NoSelfConflict ==
  [][last'.op = "save" =>
       \A f \in BagToSet(forms), raw \in Submissions :
         (~f.is_new /\ save_form(f, raw))
         => LET c == Candidate(f, raw)
                others == SelectSeq(bookings[f.win], LAMBDA b : b.id # f.id)
            IN  /\ (/\ c.accepted
                    /\ \E i \in 1..Len(bookings[f.win]) : bookings[f.win][i] = c.booking)
                   => /\ last'.dialog # "Conflict" /\ last'.ret = "True"
                      /\ bookings' = bookings
                      /\ AsSet(disk') = AsSet(disk)
                /\ last'.dialog = "Conflict" => Conflicts(others, c.booking)]_vars

\* An edit form has been saved and the collection is the one the session
\* began with.
C20_Witness ==
  /\ last.op = "save" /\ last.ret = "True"
  /\ store = <<SeedA, SeedB>>
  /\ bookings[OnlyWindow] = store
\* C21: from the same collection, with the same user and the same entries,
\* the SQLite variant and the JSON variant accept or reject a Save alike and
\* are left with the same set of bookings.
C21_VariantsAgree ==
  fnOut # <<>> => fnOut[1] = fnOut[2]
\* The calendar day of a date as one number.
DayNumber(date) == DayOf(date)[1] * 10000 + DayOf(date)[2] * 100 + DayOf(date)[3]

\* a comes no later than b by date, then start time, then id.
InListOrder(a, b) ==
  \/ DayNumber(a.date) < DayNumber(b.date)
  \/ /\ DayNumber(a.date) = DayNumber(b.date)
     /\ MinutesOf(a.start_time) < MinutesOf(b.start_time)
  \/ /\ DayNumber(a.date) = DayNumber(b.date)
     /\ MinutesOf(a.start_time) = MinutesOf(b.start_time)
     /\ a.id <= b.id

\* C22: get_amenity_bookings returns the bookings in ascending order of date,
\* then start time, then id, in both variants and after any sequence of
\* successful creates, edits, cancels and deletes.
C22_ReadIsOrdered ==
  LET read == get_amenity_bookings(variant, store)
  IN  \A i, j \in 1..Len(read) : i < j => InListOrder(read[i], read[j])
\* The text is int ":" int, the only texts parse_time_to_minutes can read
\* (signs and blanks left aside).
CanBeParsed(t) ==
  \E k \in 2..(Len(t) - 1) :
    /\ t[k] = ":"
    /\ \A i \in (1..Len(t)) \ {k} : t[i] \in Digits

\* C23: a time that cannot be parsed maps to -1; has_conflict returns false
\* when the candidate's start or end cannot be parsed; and an existing booking
\* with a start_time or end_time that cannot be parsed never makes
\* has_conflict return true for a well-formed candidate.
C23_MalformedNeverConflicts ==
  fnOut # <<>> =>
    LET bs == fnIn[1]
        c  == fnIn[2]
        sound == SelectSeq(bs, LAMBDA b : CanBeParsed(b.start_time) /\ CanBeParsed(b.end_time))
    IN  /\ \A t \in {c.start_time, c.end_time} :
             ~CanBeParsed(t) => parse_time_to_minutes(t) = -1
        /\ (~CanBeParsed(c.start_time) \/ ~CanBeParsed(c.end_time)) => fnOut[1] = FALSE
        /\ (CanBeParsed(c.start_time) /\ CanBeParsed(c.end_time) /\ fnOut[1] = TRUE)
             => Conflicts(sound, c)
\* C24: with the Amenities window open once at a time, the window's list is
\* loaded from the store when it opens, and after every operation, carried out
\* or rejected, the persisted collection holds exactly the bookings of the
\* window's list, with the same ids and field values.
C24_WriteThrough ==
  open[OnlyWindow] =>
    /\ disk = store
    /\ Len(store) = Len(bookings[OnlyWindow])
    /\ AsSet(store) = AsSet(bookings[OnlyWindow])

C24_Witness ==
  /\ open[OnlyWindow]
  /\ last.op = "cancel_booking" /\ last.saves = 1
  /\ Len(bookings[OnlyWindow]) = 2
  /\ \E i \in 1..2 : bookings[OnlyWindow][i].status = "Cancelled"
  /\ AsSet(disk) = AsSet(bookings[OnlyWindow])
\* C25 as first stated: after the booking with the largest id is deleted, the
\* next successful create is given that same id again.
C25_ReusesTheDeletedId ==
  (fnOut # <<>> /\ fnOut[1].deleted # 0 /\ fnOut[1].created # 0)
    => fnOut[1].created = fnOut[1].deleted

\* C25: booking ids are reused.  After the booking with the largest id is
\* deleted, the next successful create is given one more than the largest id
\* left (1 when none is left): an id no larger than the deleted one, and the
\* deleted id itself exactly when the id just below it is still in use or,
\* for id 1, when nothing is left.  So ids handed out do not strictly increase.
C25_ReusesIds ==
  (fnOut # <<>> /\ fnOut[1].deleted # 0 /\ fnOut[1].created # 0) =>
    LET k == fnOut[1].deleted
        n == fnOut[1].created
        left == {fnIn.rows[i].id : i \in 1..Len(fnIn.rows)} \ {k}
    IN  /\ \A x \in left : x < k
        /\ IF left = {} THEN n = 1
           ELSE \E m \in left : (\A x \in left : x <= m) /\ n = m + 1
        /\ n <= k
        /\ n = k <=> (k - 1 \in left \/ (k = 1 /\ left = {}))

C25_Witness ==
  /\ fnOut # <<>>
  /\ fnOut[1].deleted = 3 /\ fnOut[1].created = 3
  /\ Len(fnIn.rows) = 3
\* C26: an edit form is bound to its booking by id only and no permission is
\* checked when it is saved.  A Save of an edit form whose booking is no longer
\* in the window's list, with entries that pass the checks and overlap
\* nothing, reports success, persists and closes the form while the contents
\* of the collection stay as they were; when a booking holds the form's id,
\* whoever created it, the Save replaces it with the form's values, created_by
\* included.
C26_EditFormBindsById ==
  [][last'.op = "save" =>
       \A f \in BagToSet(forms), raw \in Submissions :
         (~f.is_new /\ save_form(f, raw))
         => LET c == Candidate(f, raw)
                old == bookings[f.win]
                new == bookings'[f.win]
                held == \E i \in 1..Len(old) : old[i].id = f.id
            IN  /\ last'.dialog # "Permission"
                /\ (c.accepted /\ ~held /\ ~Conflicts(old, c.booking))
                     => /\ last'.ret = "True"
                        /\ last'.sets = 1 /\ last'.saves = 1
                        /\ ~BagIn(f, forms') \/ forms[f] > 1
                        /\ new = old
                        /\ AsSet(store') = AsSet(store)
                        /\ AsSet(disk') = AsSet(disk)
                /\ (last'.ret = "True" /\ held)
                     => \A i \in 1..Len(old) :
                          old[i].id = f.id
                          => /\ new[i] = c.booking
                             /\ new[i].id = f.id
                             /\ new[i].created_by = f.created_by
                             /\ new[i].unit = raw.unit
                             /\ new[i].status = raw.status]_vars

\* An edit form has just been saved with success although the collection
\* holds no booking: the booking of the form was deleted while it was open.
C26_Witness ==
  /\ last.op = "save" /\ last.ret = "True" /\ last.saves = 1
  /\ open[OnlyWindow]
  /\ bookings[OnlyWindow] = <<>> /\ store = <<>> /\ disk = <<>>

StatusValues == {"Booked", "Cancelled"}

StatusOf(bs, id) == {bs[i].status : i \in {j \in 1..Len(bs) : bs[j].id = id}}

\* C27: Cancelled is not a terminal status.  The Save of an edit form with
\* status Booked on a Cancelled booking, with entries that pass the checks,
\* returns the booking to Booked unless it overlaps another booking, in which
\* case it is rejected as any edit is; the Save of a form for a new booking
\* with status Cancelled stores the booking as Cancelled; and in every
\* reachable state every booking's status is Booked or Cancelled.
C27_CancelledNotTerminal ==
  /\ [](/\ \A i \in 1..Len(store) : store[i].status \in StatusValues
        /\ \A i \in 1..Len(disk) : disk[i].status \in StatusValues
        /\ \A w \in Windows : \A i \in 1..Len(bookings[w]) :
             bookings[w][i].status \in StatusValues)
  /\ [][last'.op = "save" =>
          \A f \in BagToSet(forms), raw \in Submissions :
            save_form(f, raw)
            => LET c == Candidate(f, raw)
                   old == bookings[f.win]
                   new == bookings'[f.win]
               IN  /\ (/\ ~f.is_new /\ raw.status = "Booked" /\ c.accepted
                        /\ StatusOf(old, f.id) = {"Cancelled"})
                       => IF Conflicts(old, c.booking)
                          THEN /\ last'.dialog = "Conflict"
                               /\ StatusOf(new, f.id) = {"Cancelled"}
                               /\ disk' = disk
                          ELSE /\ last'.ret = "True" /\ last'.saves = 1
                               /\ StatusOf(new, f.id) = {"Booked"}
                               /\ StatusOf(disk', f.id) = {"Booked"}
                   /\ (/\ f.is_new /\ raw.status = "Cancelled" /\ c.accepted
                        /\ ~Conflicts(old, c.booking))
                       => /\ last'.ret = "True" /\ last'.saves = 1
                          /\ Len(new) = Len(old) + 1
                          /\ new[Len(new)].status = "Cancelled"
                          /\ StatusOf(disk', c.booking.id) = {"Cancelled"}]_vars

\* A Save has stored the submission with status Cancelled as the only
\* booking of the collection.
C27_Witness ==
  /\ last.op = "save" /\ last.ret = "True" /\ last.saves = 1
  /\ Len(disk) = 1
  /\ disk[1].status = "Cancelled"
  /\ disk[1].start_time = T0900 /\ disk[1].end_time = T1030
  /\ bookings[OnlyWindow] = disk

\* C28: the status of a service request is changed only by an admin through
\* change_status.  A stored request changes its status only in the Save of a
\* StatusForm in an admin's session; the Save of a ServiceRequestForm keeps the
\* status and the created_by of every request that stays in the collection
\* under its id; a request that enters the collection is Submitted; and for a
\* resident change_status ends with a dialog and changes nothing.
C28_StatusOnlyByAdmin ==
  [][/\ \A i \in 1..Len(service_requests), j \in 1..Len(service_requests') :
          service_requests[i].id = service_requests'[j].id
          => /\ service_requests'[j].status # service_requests[i].status
                  => is_admin(user) /\ last'.op = "StatusForm.save"
             /\ last'.op = "ServiceRequestForm.save"
                  => /\ service_requests'[j].status = service_requests[i].status
                     /\ service_requests'[j].created_by = service_requests[i].created_by
     /\ \A j \in 1..Len(service_requests') :
          (\A i \in 1..Len(service_requests) :
             service_requests[i].id # service_requests'[j].id)
          => service_requests'[j].status = "Submitted"
     /\ (last'.op = "change_status" /\ ~is_admin(user))
          => /\ last'.dialog \in {"Select", "Permission"}
             /\ UNCHANGED srVars]_vars

====
